---- MODULE Spec2Model ----
(***************************************************************************)
(* Meeting-summary ingestion: the coordinator (src/cli/ingest.py), the     *)
(* validator (src/services/json_validator.py, src/models/meeting_summary), *)
(* the writer (src/services/ingestion_service.py) and the workgroup        *)
(* pre-processing (src/services/schema_manager.py) over a relational       *)
(* store with transactions and upsert primitives.                          *)
(***************************************************************************)
EXTENDS Integers, Sequences, FiniteSets, TLC

(***************************************************************************)
(* Bounds of the model.                                                    *)
(***************************************************************************)
MaxSources == 2     \* longest list of source URLs
MaxRecs == 2        \* most records in one downloaded document
MaxFaults == 1      \* store failures injected in one run
MaxChain == 12      \* longest chain of nested containers in a raw_json heap
MaxClients == 2     \* requests the dashboard backend serves at once
MaxRequests == 2    \* requests received in one behaviour
MaxItems == 6       \* most agenda items in a record handed to the structure gate
MaxPage == 3        \* highest page number asked of list_meetings

(***************************************************************************)
(* Program constants.                                                      *)
(***************************************************************************)
MaxDepth == 10      \* detect_circular_reference(raw_json, max_depth=10)
SampleItems == 5    \* sample["agendaItems"][:5]

Null == "null"      \* JSON null / Python None / an absent optional key

Clients == 1..MaxClients

(***************************************************************************)
(* State.                                                                  *)
(***************************************************************************)
VARIABLES
    urls, dry_run, skip_validation, caller,     \* inputs of the run
    pc,                                         \* position of the ingestion process
    src,                                        \* index of the current URL
    json_data, valid_records, total_stats,      \* _run_ingestion locals
    pool, service,                              \* db_connection, ingestion_service
    stats, workgroups, wgi, mi,                 \* process_meetings locals
    plan, wpos, cur_id,                         \* _process_single_meeting position
    exc,                                        \* the exception being raised
    conn, tx, db,                               \* pooled connection, transaction, tables
    faults,                                     \* store failures injected so far
    fetchLog,                                   \* URLs fetched, in order
    opLog, opMark,                              \* store calls; the run at source start
    errLog,                                     \* error types logged for the source
    recLog,                                     \* outcome of each meeting of the source
    srcLog,                                     \* summary of each finished source
    pre,                                        \* tables when the current record began
    gateRun, outcome,                           \* record gate ran; how the source ended
    root, verdict,                              \* a parsed JSON root and the gate's answer
    listing,                                    \* a list_meetings call building its queries
    database_url, dev_auth_bypass,              \* environment of the dashboard backend
    api_pool,                                   \* its module-level connection pool
    pools_created, pool_id,                     \* pools made by create_pool; the one in _pool
    reqs, resps, served,                        \* requests in progress, answered, count
    acks_table, acks,                           \* alert_acknowledgments: exists, its rows
    error_log, archived                         \* alert ids; meeting rows not enumerated

inputs == <<urls, dry_run, skip_validation, caller>>
coord == <<src, json_data, valid_records, total_stats, pool, service>>
svc == <<stats, workgroups, wgi, mi, plan, wpos, cur_id>>
store == <<conn, tx, db>>
hist == <<fetchLog, opLog, opMark, errLog, recLog, srcLog, pre, gateRun, outcome>>
probe == <<root, verdict, listing>>
readapi == <<database_url, dev_auth_bypass, api_pool, pools_created, pool_id, reqs, resps, served,
             acks_table, acks, error_log, archived>>
vars == <<pc, inputs, coord, svc, exc, store, faults, hist, probe, readapi>>

(***************************************************************************)
(* Small helpers.                                                          *)
(***************************************************************************)
EmptyFn == [k \in {} |-> Null]
Put(f, k, v) == [y \in (DOMAIN f) \cup {k} |-> IF y = k THEN v ELSE f[y]]
Range(s) == {s[i] : i \in DOMAIN s}
IsPrefix(s, t) == Len(s) <= Len(t) /\ \A i \in 1..Len(s) : s[i] = t[i]

(***************************************************************************)
(* Strings: UUID syntax, trimming, date parsing.                           *)
(***************************************************************************)
\* the strings of the model that uuid.UUID() accepts
UUIDStrings == {"w1", "W1", "w2", "m1", "a1", "a2", "c1"}

validate_uuid(value) == value \in UUIDStrings

\* str.strip(): blank strings trim to the empty string
sanitize_text(text) == IF text \in {"", " "} THEN "" ELSE text

\* falsy Python values among the scalars of the model
Falsy(v) == v \in {Null, ""}

\* the date strings of the model with the format that parses them first and
\* the calendar date they denote (str(date) is its ISO form)
DateTable ==
    [s \in {"2024-06-01", "2024-06-01T10:00:00Z", "06/01/2024", "2024-06-02"} |->
        CASE s = "2024-06-01" -> "2024-06-01"              \* %Y-%m-%d
          [] s = "2024-06-01T10:00:00Z" -> "2024-06-01"    \* %Y-%m-%dT%H:%M:%SZ
          [] s = "06/01/2024" -> "2024-06-01"              \* %m/%d/%Y
          [] s = "2024-06-02" -> "2024-06-02"]

parse_date(date_str) ==
    IF date_str \in DOMAIN DateTable THEN DateTable[date_str] ELSE Null

(***************************************************************************)
(* raw_json object graphs.  A heap is a root and, for every node, the      *)
(* sequence of its children (the values of a dict, the items of a list);   *)
(* a node is one Python object, so two edges to one node share the object. *)
(***************************************************************************)
Chain(n) == [root |-> 1, kids |-> [i \in 1..n |-> IF i < n THEN <<i + 1>> ELSE <<>>]]

\* a chain whose root holds its child twice (an object shared by siblings)
Shared(n) ==
    [root |-> 1,
     kids |-> [i \in 1..n |-> IF i = 1 /\ n > 1 THEN <<2, 2>>
                              ELSE IF i < n THEN <<i + 1>> ELSE <<>>]]

\* a chain whose last container holds node k again (its own ancestor, or itself)
Cyclic(n, k) ==
    [root |-> 1, kids |-> [i \in 1..n |-> IF i < n THEN <<i + 1>> ELSE <<k>>]]

RECURSIVE detect_visit(_, _, _, _)
detect_visit(h, obj, max_depth, visited) ==
    IF obj \in visited THEN TRUE
    ELSE IF max_depth <= 0 THEN TRUE
    ELSE \E i \in 1..Len(h.kids[obj]) :
            detect_visit(h, h.kids[obj][i], max_depth - 1, visited \cup {obj})

\* the same walk with the depth test off by one
RECURSIVE detect_visit_off_by_one(_, _, _, _)
detect_visit_off_by_one(h, obj, max_depth, visited) ==
    IF obj \in visited THEN TRUE
    ELSE IF max_depth < 0 THEN TRUE
    ELSE \E i \in 1..Len(h.kids[obj]) :
            detect_visit_off_by_one(h, h.kids[obj][i], max_depth - 1, visited \cup {obj})

detect_circular_reference_lenient(h, max_depth) ==
    detect_visit_off_by_one(h, h.root, max_depth, {})

detect_circular_reference(h, max_depth) ==
    detect_visit(h, h.root, max_depth, {})

(***************************************************************************)
(* Input records (one JSON object of the downloaded array).  `present` is  *)
(* the set of top-level keys the object has; a key that is absent keeps a  *)
(* placeholder value that no code path reads.                              *)
(***************************************************************************)
Absent == "<absent>"    \* a key that a nested object does not have

\* the fields of an object that the schema does not mention, in key order:
\* pairs of a name and a value
NoExtra == <<>>
Field(name, value) == [name |-> name, value |-> value]

TopFields == {"workgroup", "workgroup_id", "meetingInfo", "agendaItems", "tags", "type", "id"}
RequiredTop == {"workgroup", "workgroup_id", "meetingInfo", "agendaItems", "tags", "type"}

MI(date, host, purpose) ==
    [date |-> date, host |-> host, purpose |-> purpose, extra |-> NoExtra]

\* an element of actionItems, decisionItems or discussionPoints: an object
\* with its id and its text ("text", "decision", "point"), or a bare string
Child(id, text) == [id |-> id, text |-> text, extra |-> NoExtra, form |-> "object"]
PointString(text) == [id |-> Null, text |-> text, extra |-> NoExtra, form |-> "string"]

\* `scalar` names the child lists of the item whose value is not an array
Item(id, actions, decisions, points) ==
    [id |-> id, status |-> Null, actionItems |-> actions,
     decisionItems |-> decisions, discussionPoints |-> points,
     extra |-> NoExtra, scalar |-> {}]

\* `scalar` names the fields among meetingInfo and agendaItems whose value is
\* neither an object nor an array; the values of the top-level extra fields
\* are object graphs
Rec(present, wgname, wgid, id, info, agenda, tags, type) ==
    [present |-> present, workgroup |-> wgname, workgroup_id |-> wgid, id |-> id,
     meetingInfo |-> info, agendaItems |-> agenda, tags |-> tags, type |-> type,
     extra |-> NoExtra, scalar |-> {}]

(***************************************************************************)
(* Structure gate: validate_json_structure_compatibility looks at the      *)
(* first record only.                                                      *)
(***************************************************************************)
Has(r, f) == f \in r.present

ChildLists == {"actionItems", "decisionItems", "discussionPoints"}

\* a gate that looks at the actionItems of an agenda item only
OnlyActionItemsChecked(item) == "actionItems" \notin item.scalar

\* actionItems, decisionItems and discussionPoints, where present, are lists
ChildListsAreArrays(item) == item.scalar = {}

validate_json_structure_compatibility(data) ==
    IF data = <<>> THEN TRUE
    ELSE LET sample == data[1] IN
         /\ \A f \in RequiredTop : Has(sample, f)
         /\ (Has(sample, "meetingInfo") =>
                /\ "meetingInfo" \notin sample.scalar
                /\ sample.meetingInfo.date # Absent)
         /\ (Has(sample, "agendaItems") =>
                /\ "agendaItems" \notin sample.scalar
                /\ \A i \in 1..Len(sample.agendaItems) :
                      i <= SampleItems => ChildListsAreArrays(sample.agendaItems[i]))

\* `if not isinstance(json_data, list): return False`, on what json.loads gave
is_list(kind) == kind = "array"

\* the gate on a parsed document of any root: `data` holds the elements when
\* the root is an array
StructureGate(kind, data) == is_list(kind) /\ validate_json_structure_compatibility(data)

(***************************************************************************)
(* Record gate: validate_record builds a MeetingSummary from the record.   *)
(***************************************************************************)
RECURSIVE DropWithoutText(_)
\* AgendaItem.validate_action_items: action items lacking "text" are dropped
DropWithoutText(items) ==
    IF items = <<>> THEN <<>>
    ELSE (IF Head(items).text = Absent \/ Head(items).form # "object"
          THEN <<>> ELSE <<Head(items)>>)
         \o DropWithoutText(Tail(items))

\* AgendaItem.validate_discussion_points: a string becomes {"point": string};
\* an object with no "point" and exactly one key becomes {"point": its value};
\* any other object is kept as it is
point_of(item) ==
    IF item.form = "string" THEN Child(Null, item.text)
    ELSE IF item.text # Absent THEN item
    ELSE IF Len(item.extra) = 1 THEN Child(Null, item.extra[1].value)
    ELSE item

validate_discussion_points(v) == [i \in 1..Len(v) |-> point_of(v[i])]

\* the id validators: a truthy id must parse as a UUID
IdOk(id) == Falsy(id) \/ validate_uuid(id)

\* validate_text / validate_decision / validate_point, with the id validator
ChildOk(c) ==
    /\ c.form = "object"
    /\ c.text \notin {Absent, Null}
    /\ sanitize_text(c.text) # ""
    /\ IdOk(c.id)

\* the parsed element: fields the model does not declare are not kept
ChildModel(c) ==
    [id |-> c.id, text |-> sanitize_text(c.text), extra |-> NoExtra, form |-> "object"]

AgendaItemOk(item) ==
    /\ item.scalar = {}
    /\ IdOk(item.id)
    /\ \A i \in 1..Len(DropWithoutText(item.actionItems)) :
            ChildOk(DropWithoutText(item.actionItems)[i])
    /\ \A i \in 1..Len(item.decisionItems) : ChildOk(item.decisionItems[i])
    /\ \A i \in 1..Len(item.discussionPoints) :
            ChildOk(validate_discussion_points(item.discussionPoints)[i])

AgendaItemModel(item) ==
    [id |-> item.id, status |-> item.status,
     actionItems |-> [i \in 1..Len(DropWithoutText(item.actionItems)) |->
                        ChildModel(DropWithoutText(item.actionItems)[i])],
     decisionItems |-> [i \in 1..Len(item.decisionItems) |-> ChildModel(item.decisionItems[i])],
     discussionPoints |-> [i \in 1..Len(item.discussionPoints) |->
                        ChildModel(validate_discussion_points(item.discussionPoints)[i])],
     extra |-> NoExtra, scalar |-> {}]

\* is_valid of validate_record
record_is_valid(r) ==
    /\ Has(r, "workgroup") /\ r.workgroup # Null /\ sanitize_text(r.workgroup) # ""
    /\ Has(r, "workgroup_id") /\ validate_uuid(r.workgroup_id)
    /\ Has(r, "meetingInfo") /\ "meetingInfo" \notin r.scalar
    /\ r.meetingInfo.date \notin {Absent, Null}
    /\ (Has(r, "agendaItems") =>
          /\ "agendaItems" \notin r.scalar
          /\ \A i \in 1..Len(r.agendaItems) : AgendaItemOk(r.agendaItems[i]))

\* the parsed model of validate_record (for a valid record)
MeetingSummary(r) ==
    [workgroup |-> sanitize_text(r.workgroup),
     workgroup_id |-> r.workgroup_id,
     id |-> IF Has(r, "id") THEN r.id ELSE Null,
     meetingInfo |-> [date |-> r.meetingInfo.date,
                      host |-> IF r.meetingInfo.host = Absent THEN Null ELSE r.meetingInfo.host,
                      purpose |-> IF r.meetingInfo.purpose = Absent THEN Null
                                  ELSE r.meetingInfo.purpose,
                      extra |-> NoExtra],
     agendaItems |-> IF Has(r, "agendaItems")
                     THEN [i \in 1..Len(r.agendaItems) |-> AgendaItemModel(r.agendaItems[i])]
                     ELSE <<>>,
     tags |-> IF Has(r, "tags") THEN r.tags ELSE Chain(1),
     type |-> IF Has(r, "type") THEN r.type ELSE Null,
     extra |-> r.extra,
     hasCached |-> FALSE,
     cached |-> Chain(1)]

RECURSIVE validate_records_valid(_)
\* valid_records of JSONValidator.validate_records, in input order
validate_records_valid(data) ==
    IF data = <<>> THEN <<>>
    ELSE (IF record_is_valid(Head(data)) THEN <<MeetingSummary(Head(data))>> ELSE <<>>)
         \o validate_records_valid(Tail(data))

\* len(invalid_records) of JSONValidator.validate_records
validate_records_invalid(data) ==
    Cardinality({i \in 1..Len(data) : ~record_is_valid(data[i])})

(***************************************************************************)
(* Identity: deterministic ids of the writer.  uuid5 and SHA-256 are       *)
(* collision-free on their input strings: the id is the input string       *)
(* itself, wrapped.                                                        *)
(***************************************************************************)
MEETING_NAMESPACE == "6ba7b810"
AGENDA_ITEM_NAMESPACE == "6ba7b811"
ACTION_ITEM_NAMESPACE == "6ba7b812"
DECISION_ITEM_NAMESPACE == "6ba7b813"
DISCUSSION_POINT_NAMESPACE == "6ba7b814"

uuid5(namespace, name) == "uuid5(" \o namespace \o "," \o name \o ")"
sha256_hex16(text) == "sha16(" \o text \o ")"

\* str(uuid.UUID(s)): the canonical (lower-case) form of a UUID string
uuid_UUID(s) == IF s = "W1" THEN "w1" ELSE s

host_str(m) == IF Falsy(m.meetingInfo.host) THEN "" ELSE m.meetingInfo.host
purpose_str(m) == IF Falsy(m.meetingInfo.purpose) THEN "" ELSE m.meetingInfo.purpose
agenda_count(m) == Len(m.agendaItems)

\* key_fields without the host
key_fields_without_host(m, meeting_date) ==
    uuid_UUID(m.workgroup_id) \o ":" \o meeting_date \o ":" \o purpose_str(m)
        \o ":" \o ToString(agenda_count(m))

key_fields(m, meeting_date) ==
    uuid_UUID(m.workgroup_id) \o ":" \o meeting_date \o ":" \o host_str(m) \o ":"
        \o purpose_str(m) \o ":" \o ToString(agenda_count(m))

\* a source id is used when it is truthy and parses
SourceId(id) == IF ~Falsy(id) /\ validate_uuid(id) THEN uuid_UUID(id) ELSE Null

derived_meeting_id(m, meeting_date) ==
    uuid5(MEETING_NAMESPACE,
          uuid_UUID(m.workgroup_id) \o ":" \o meeting_date \o ":"
              \o sha256_hex16(key_fields(m, meeting_date)))

\* a meeting whose derived id is already stored gets another id
meeting_id_fresh_on_conflict(m, meeting_date) ==
    IF SourceId(m.id) # Null THEN SourceId(m.id)
    ELSE IF derived_meeting_id(m, meeting_date) \in DOMAIN db.meetings
    THEN uuid5(MEETING_NAMESPACE, derived_meeting_id(m, meeting_date))
    ELSE derived_meeting_id(m, meeting_date)

meeting_id_of(m, meeting_date) ==
    IF SourceId(m.id) # Null THEN SourceId(m.id) ELSE derived_meeting_id(m, meeting_date)

agenda_item_id_of(meeting_id, item, idx) ==
    IF SourceId(item.id) # Null THEN SourceId(item.id)
    ELSE uuid5(AGENDA_ITEM_NAMESPACE, meeting_id \o ":agenda:" \o ToString(idx))

\* a writer that derives every child key, whatever the source says
child_id_derived(namespace, kind, agenda_item_id, child, idx) ==
    uuid5(namespace, agenda_item_id \o ":" \o kind \o ":" \o ToString(idx))

child_id_of(namespace, kind, agenda_item_id, child, idx) ==
    IF SourceId(child.id) # Null THEN SourceId(child.id)
    ELSE uuid5(namespace, agenda_item_id \o ":" \o kind \o ":" \o ToString(idx))

(***************************************************************************)
(* The raw_json the writer checks and stores.                              *)
(***************************************************************************)
\* containers below the root on the longest structural path of model_dump():
\* agendaItems > item > child list > child > text, or meetingInfo > attendees
SpineLen(m) ==
    IF \E i \in 1..Len(m.agendaItems) :
          Len(m.agendaItems[i].actionItems) + Len(m.agendaItems[i].decisionItems)
              + Len(m.agendaItems[i].discussionPoints) > 0
    THEN 5
    ELSE IF m.agendaItems # <<>> THEN 3 ELSE 2

\* the declared fields of meeting.model_dump(): the root dict over the
\* structural spine and the tags
DeclaredDumpHeap(m) ==
    LET s == SpineLen(m)
        t == m.tags
        n == Cardinality(DOMAIN t.kids)
        off == s + 1
    IN [root |-> 1,
        kids |-> [i \in 1..(1 + s + n) |->
                    IF i = 1 THEN <<2, off + t.root>>
                    ELSE IF i <= s THEN <<i + 1>>
                    ELSE IF i = s + 1 THEN <<>>
                    ELSE [j \in 1..Len(t.kids[i - off]) |-> t.kids[i - off][j] + off]]]

\* heap h with the object graph v as one more value of its root
Graft(h, v) ==
    LET off == Cardinality(DOMAIN h.kids)
        n == Cardinality(DOMAIN v.kids)
    IN [root |-> h.root,
        kids |-> [i \in 1..(off + n) |->
                    IF i = h.root THEN Append(h.kids[i], off + v.root)
                    ELSE IF i <= off THEN h.kids[i]
                    ELSE [j \in 1..Len(v.kids[i - off]) |-> v.kids[i - off][j] + off]]]

RECURSIVE GraftAll(_, _)
GraftAll(h, fields) ==
    IF fields = <<>> THEN h ELSE GraftAll(Graft(h, Head(fields).value), Tail(fields))

\* meeting.model_dump(): the declared fields and, the model being declared
\* with extra="allow", the top-level fields the schema does not mention
ModelDumpHeap(m) == GraftAll(DeclaredDumpHeap(m), m.extra)

raw_json_of(m) == IF m.hasCached THEN m.cached ELSE ModelDumpHeap(m)

(***************************************************************************)
(* The store: six tables, each a function from primary key to row.         *)
(***************************************************************************)
Tables == {"workgroups", "meetings", "agenda_items", "action_items",
           "decision_items", "discussion_points"}
MeetingTables == Tables \ {"workgroups"}

EmptyDB == [t \in Tables |-> EmptyFn]

\* upsert_<entity>(id, attributes...): insert, or on conflict of the primary
\* key overwrite every attribute of the row
upsert(tables, table, id, row) == [tables EXCEPT ![table] = Put(@, id, row)]

NoTx == [open |-> FALSE, view |-> EmptyDB]

\* a connection on which no transaction is opened: statements commit one by one
no_transaction(tables) == NoTx

\* conn.transaction().__aenter__: statements now act on the transaction's view
begin_transaction(tables) == [open |-> TRUE, view |-> tables]

(***************************************************************************)
(* The upserts of _process_single_meeting for one meeting, in call order.  *)
(***************************************************************************)
child_ops(table, namespace, kind, agenda_item_id, children) ==
    [i \in 1..Len(children) |->
        [table |-> table,
         id |-> child_id_of(namespace, kind, agenda_item_id, children[i], i - 1),
         row |-> [agenda_item_id |-> agenda_item_id,
                  text |-> children[i].text,
                  raw_json |-> children[i]]]]

\* order_index with every agenda item numbered 0
order_index_zero(idx) == 0

order_index_of(idx) == idx

RECURSIVE agenda_ops(_, _, _)
agenda_ops(meeting_id, items, idx) ==
    IF idx >= Len(items) THEN <<>>
    ELSE LET item == items[idx + 1]
             aid == agenda_item_id_of(meeting_id, item, idx)
         IN <<[table |-> "agenda_items", id |-> aid,
               row |-> [meeting_id |-> meeting_id, status |-> item.status,
                        order_index |-> order_index_of(idx), raw_json |-> item]]>>
            \o child_ops("action_items", ACTION_ITEM_NAMESPACE, "action", aid, item.actionItems)
            \o child_ops("decision_items", DECISION_ITEM_NAMESPACE, "decision", aid,
                         item.decisionItems)
            \o child_ops("discussion_points", DISCUSSION_POINT_NAMESPACE, "discussion", aid,
                         item.discussionPoints)
            \o agenda_ops(meeting_id, items, idx + 1)

meeting_row(m, meeting_date) ==
    [workgroup_id |-> uuid_UUID(m.workgroup_id),
     date |-> meeting_date,
     type |-> IF Falsy(m.type) THEN Null ELSE m.type,
     host |-> IF Falsy(m.meetingInfo.host) THEN Null ELSE m.meetingInfo.host,
     purpose |-> IF Falsy(m.meetingInfo.purpose) THEN Null ELSE m.meetingInfo.purpose,
     raw_json |-> m]

write_plan(m, meeting_id, meeting_date) ==
    <<[table |-> "meetings", id |-> meeting_id, row |-> meeting_row(m, meeting_date)]>>
    \o agenda_ops(meeting_id, m.agendaItems, 0)

(***************************************************************************)
(* Workgroup pre-processing (SchemaManager).                               *)
(***************************************************************************)
\* uuid.UUID(json_record.get("workgroup_id", "")) raises for some record
extract_raises(original_json_records) ==
    \E i \in 1..Len(original_json_records) :
        ~(Has(original_json_records[i], "workgroup_id")
          /\ validate_uuid(original_json_records[i].workgroup_id))

\* raw_json of a workgroup: json_by_workgroup[id], the first original record
\* with that workgroup id, else the dump of the meeting
workgroup_raw_json(original_json_records, id, meeting) ==
    LET hits == {i \in 1..Len(original_json_records) :
                    uuid_UUID(original_json_records[i].workgroup_id) = id}
    IN IF hits = {} THEN meeting
       ELSE original_json_records[CHOOSE i \in hits : \A j \in hits : i <= j]

RECURSIVE unique_workgroups(_, _, _)
unique_workgroups(meetings, original_json_records, seen) ==
    IF meetings = <<>> THEN <<>>
    ELSE LET id == uuid_UUID(Head(meetings).workgroup_id) IN
         (IF id \in seen THEN <<>>
          ELSE <<[table |-> "workgroups", id |-> id,
                  row |-> [name |-> Head(meetings).workgroup,
                           raw_json |-> workgroup_raw_json(original_json_records, id,
                                                           Head(meetings))]]>>)
         \o unique_workgroups(Tail(meetings), original_json_records, seen \cup {id})

extract_unique_workgroups(meetings, original_json_records) ==
    unique_workgroups(meetings, original_json_records, {})

(***************************************************************************)
(* Inputs of the model: records, documents, initial stores.                *)
(***************************************************************************)
NoItems == <<>>
Flat == Chain(1)    \* "tags": {}

\* S1: one agenda item with one action item, no source ids
RecA == Rec(RequiredTop, "WG", "w1", Null, MI("2024-06-01", "A", Null),
            <<Item(Null, <<Child(Null, "do x")>>, NoItems, NoItems)>>, Flat, "regular")
\* S2: same workgroup and date as RecA, another host; a source agenda-item id
RecB == Rec(RequiredTop, "WG", "w1", Null, MI("06/01/2024", "B", Null),
            <<Item("a1", NoItems, <<Child(Null, "decide")>>, NoItems)>>, Flat, "regular")
\* a source meeting id, and the agenda-item id of RecB again
RecC == Rec(RequiredTop \cup {"id"}, "WG2", "w2", "m1", MI("2024-06-02", Null, "P"),
            <<Item("a1", NoItems, NoItems, <<Child("c1", "point")>>)>>, Flat, "regular")
\* S4: workgroup_id is not a UUID
RecBadWg == Rec(RequiredTop, "WG", "not-a-uuid", Null, MI("2024-06-01", "A", Null),
                NoItems, Flat, "regular")
\* a blank workgroup name under a valid workgroup_id
RecBlank == Rec(RequiredTop, " ", "w1", Null, MI("2024-06-01", "A", Null),
                NoItems, Flat, "regular")
\* S6: tags nested so deep that raw_json has more than MaxDepth levels
RecDeep == Rec(RequiredTop, "WG", "w1", Null, MI("2024-06-01", "D", Null),
               NoItems, Chain(MaxDepth), "regular")
\* a date no format parses
RecBadDate == Rec(RequiredTop, "WG", "w1", Null, MI("bogus", "A", Null),
                  NoItems, Flat, "regular")
\* S5: required top-level fields are missing
RecBare == Rec({"workgroup"}, "W", Null, Null, MI(Absent, Absent, Absent),
               NoItems, Flat, Null)

\* RecA with a field the schema does not mention at the top level, in
\* meetingInfo, in the agenda item and in the action item
RecAX == [RecA EXCEPT !.extra = <<Field("extraField", Flat)>>,
                      !.meetingInfo.extra = <<Field("room", "4")>>,
                      !.agendaItems[1].extra = <<Field("topic", "t")>>,
                      !.agendaItems[1].actionItems[1].extra = <<Field("priority", "1")>>]
\* RecA with a top-level field the schema does not mention, deeply nested
RecAXDeep == [RecA EXCEPT !.extra = <<Field("anotherField", Chain(MaxDepth))>>]
\* S3: discussion points as a string, as {"point": ...} and as a single-key object
RecPoint == Rec(RequiredTop, "WG", "w1", Null, MI("2024-06-01", "E", Null),
                <<Item(Null, NoItems, NoItems,
                       <<PointString("hello"), Child(Null, "world"),
                         [Child(Null, Absent) EXCEPT !.extra = <<Field("note", "!")>>]>>)>>,
                Flat, "regular")
\* RecPoint with one more field in its single-key discussion point
RecPointX == [RecPoint EXCEPT !.agendaItems[1].discussionPoints[3].extra =
                                  <<Field("note", "!"), Field("author", "bob")>>]

\* a meeting id that is no UUID; an action item without text before one
\* without id and one with a source id
RecDrop == Rec(RequiredTop \cup {"id"}, "WG", "w1", "not-a-uuid",
               MI("2024-06-02", "A", Null),
               <<Item(Null, <<Child(Null, Absent), Child(Null, "do y"), Child("a2", "do z")>>,
                      NoItems, NoItems)>>, Flat, "regular")

Records == {RecA, RecB, RecC, RecBadWg, RecBlank, RecDeep, RecBadDate, RecBare,
            RecAX, RecAXDeep, RecPoint, RecPointX, RecDrop}

\* an earlier version of meeting m1, with two agenda items
RecCOld == Rec(RequiredTop \cup {"id"}, "WG2", "w2", "m1", MI("2024-06-02", Null, "P"),
               <<Item(Null, NoItems, NoItems, NoItems),
                 Item(Null, NoItems, NoItems, NoItems)>>, Flat, "regular")

\* the documents a download returns
AllDocs ==
    {<<>>,
     <<RecA>>,
     <<RecC>>,
     <<RecCOld>>,
     <<RecA, RecB>>,
     <<RecB, RecC>>,
     <<RecA, RecBadWg>>,
     <<RecA, RecBlank>>,
     <<RecBare, RecA>>,
     <<RecDeep, RecA>>,
     <<RecBadDate, RecC>>,
     <<RecA, RecAX>>,
     <<RecA, RecAXDeep>>,
     <<RecPoint, RecPointX>>,
     <<RecC, RecDrop>>,
     <<RecA, RecBadWg, RecC>>,
     <<RecA, RecBlank, RecB>>}

Docs == {d \in AllDocs : Len(d) <= MaxRecs}

\* the URL lists of a run, up to the names of the URLs
Urls == [i \in 1..(MaxSources + 1) |-> "u" \o ToString(i)]
UrlLists ==
    {[i \in 1..n |-> Urls[i]] : n \in 1..MaxSources}
    \cup {[i \in 1..n |-> Urls[1]] : n \in 2..MaxSources}

RECURSIVE apply_ops(_, _, _)
apply_ops(tables, ops, i) ==
    IF i > Len(ops) THEN tables
    ELSE apply_ops(upsert(tables, ops[i].table, ops[i].id, ops[i].row), ops, i + 1)

\* the store after an earlier ingest of <<RecCOld>>
StoreWithOldMeeting ==
    apply_ops(EmptyDB,
              extract_unique_workgroups(<<MeetingSummary(RecCOld)>>, <<RecCOld>>)
              \o write_plan(MeetingSummary(RecCOld), "m1", "2024-06-02"), 1)

InitStores == {EmptyDB, StoreWithOldMeeting}

(***************************************************************************)
(* Inputs of a direct call of process_meetings: validated meetings, some   *)
(* carrying a _cached_model_dump.                                          *)
(***************************************************************************)
RecNoHost == Rec(RequiredTop, "WG", "w1", Null, MI("2024-06-01", Null, Null),
                 <<Item(Null, NoItems, NoItems, NoItems)>>, Flat, "regular")
RecEmptyHost == Rec(RequiredTop, "WG", "w1", Null, MI("2024-06-01", "", Null),
                    <<Item(Null, NoItems, NoItems, NoItems)>>, Flat, "regular")
RecUpper == Rec(RequiredTop, "WG", "W1", Null, MI("2024-06-01", Null, Null),
                <<Item(Null, NoItems, NoItems, NoItems)>>, Flat, "regular")
RecW2 == Rec(RequiredTop, "WG", "w2", Null, MI("2024-06-01", Null, Null),
             <<Item(Null, NoItems, NoItems, NoItems)>>, Flat, "regular")
RecDay2 == Rec(RequiredTop, "WG", "w1", Null, MI("2024-06-02", Null, Null),
               <<Item(Null, NoItems, NoItems, NoItems)>>, Flat, "regular")
RecHostA == Rec(RequiredTop, "WG", "w1", Null, MI("06/01/2024", "A", Null),
                <<Item(Null, NoItems, NoItems, NoItems)>>, Flat, "regular")
RecPurpose == Rec(RequiredTop, "WG", "w1", Null, MI("2024-06-01", Null, "P"),
                  <<Item(Null, NoItems, NoItems, NoItems)>>, Flat, "regular")
RecNoAgenda == Rec(RequiredTop, "WG", "w1", Null, MI("2024-06-01T10:00:00Z", Null, Null),
                   NoItems, Flat, "regular")
RecEmptyDate == Rec(RequiredTop, "WG", "w1", Null, MI("", "A", Null),
                    NoItems, Flat, "regular")

ServiceRecords == {RecA, RecC, RecDeep, RecBadDate, RecEmptyDate, RecNoHost, RecEmptyHost,
                   RecUpper, RecW2, RecDay2, RecHostA, RecPurpose, RecNoAgenda}

\* the object graphs of a _cached_model_dump: chains around the depth limit,
\* an object shared by siblings, containers that are their own ancestor
CachedHeaps ==
    {Chain(n) : n \in (MaxDepth - 1)..MaxChain}
    \cup {Shared(3), Shared(MaxDepth), Cyclic(1, 1), Cyclic(3, 1), Cyclic(3, 3)}

WithCache(m, h) == [m EXCEPT !.hasCached = TRUE, !.cached = h]

ServiceMeetings ==
    {MeetingSummary(r) : r \in ServiceRecords}
    \cup {WithCache(MeetingSummary(RecNoHost), h) : h \in CachedHeaps}

MeetingLists == UNION {[1..n -> ServiceMeetings] : n \in 0..MaxRecs}

(***************************************************************************)
(* Initial states of the command-line run.                                 *)
(***************************************************************************)
\* ingest(): a database URL is looked up only when this is no dry run
db_url == IF dry_run THEN Null ELSE "postgresql://store"

ZeroStats == [processed |-> 0, succeeded |-> 0, failed |-> 0, workgroups_created |-> 0]
ZeroTotals == [sources_processed |-> 0, sources_failed |-> 0,
               records_inserted |-> 0, records_updated |-> 0, records_skipped |-> 0]

\* the mark of a run that has not started its first source
StartMark == [ops |-> 0, db |-> db, faults |-> 0, totals |-> ZeroTotals]

Idle ==
    /\ src = 1 /\ json_data = <<>> /\ valid_records = <<>> /\ total_stats = ZeroTotals
    /\ stats = ZeroStats /\ workgroups = <<>> /\ wgi = 1 /\ mi = 1
    /\ plan = <<>> /\ wpos = 1 /\ cur_id = Null /\ exc = Null
    /\ conn = "none" /\ tx = NoTx /\ faults = 0
    /\ fetchLog = <<>> /\ opLog = <<>> /\ opMark = StartMark /\ errLog = <<>> /\ recLog = <<>>
    /\ srcLog = <<>> /\ gateRun = FALSE /\ outcome = Null

\* no list_meetings call is building a query
NoListing == [step |-> "idle"]

\* JsonDownloader.download hands over arrays only; no gate call is pending
ProbeIdle == root = "array" /\ verdict = FALSE /\ listing = NoListing

\* the dashboard backend is not running
NoRequest == [step |-> "idle"]
ApiIdle ==
    /\ database_url = Null /\ dev_auth_bypass = FALSE /\ api_pool = "none"
    /\ pools_created = 0 /\ pool_id = 0
    /\ reqs = [c \in Clients |-> NoRequest] /\ resps = <<>> /\ served = 0
    /\ acks_table = FALSE /\ acks = EmptyFn /\ error_log = {} /\ archived = 0

Init ==
    /\ urls \in UrlLists
    /\ dry_run \in BOOLEAN
    /\ skip_validation \in BOOLEAN
    /\ caller = "cli"
    /\ pc = "setup"
    /\ pool = "none" /\ service = FALSE
    /\ db \in InitStores
    /\ pre = db
    /\ Idle
    /\ ProbeIdle
    /\ ApiIdle

(***************************************************************************)
(* Helpers of the actions.                                                 *)
(***************************************************************************)
locals == <<json_data, valid_records>>
pools == <<pool, service>>
pm == <<stats, workgroups, wgi, mi>>
writer == <<plan, wpos, cur_id>>
ghost == <<fetchLog, opMark, srcLog, gateRun, outcome>>

\* a pool whose acquire() context keeps the connection when the block is left
connection_kept_on_exit == "held"

\* leaving `async with self.db_connection.acquire() as conn`, normally or by an
\* exception: the connection goes back to the pool
connection_after_exit == "none"

\* leaving `async with conn.transaction()` and `async with acquire()` by an
\* exception: the transaction is rolled back, the connection released
UnwindLog(log) ==
    LET a == IF tx.open THEN Append(log, "rollback") ELSE log
    IN IF conn = "held" THEN Append(a, "release") ELSE a

\* where an exception that leaves process_meetings lands
RaisePc == IF caller = "cli" THEN "src_except" ELSE "raised"

CanFault == faults < MaxFaults

\* what the run has done when a source starts
Mark == [ops |-> Len(opLog), db |-> db, faults |-> faults, totals |-> total_stats]

\* an exception of the given type, raised at the current step
Raised(type) == [type |-> type, at |-> pc]

(***************************************************************************)
(* Coordinator: _run_ingestion.                                            *)
(***************************************************************************)
\* a pool is created whatever the mode
needs_database_always == TRUE

\* if not dry_run and db_url
needs_database == ~dry_run /\ db_url # Null

\* create_pool and IngestionService(db_connection), unless dry-run
SetupDatabase ==
    /\ pc = "setup"
    /\ IF needs_database
       THEN /\ pool' = "open" /\ service' = TRUE
            /\ opLog' = Append(opLog, "create_pool")
       ELSE UNCHANGED <<pool, service, opLog>>
    /\ pc' = "loop"
    /\ UNCHANGED <<inputs, probe, readapi, src, locals, total_stats, pm, writer, exc, store, faults,
                   ghost, errLog, recLog, pre>>

\* create_pool raises: logged and re-raised, ingest() aborts
SetupDatabaseFail ==
    /\ pc = "setup" /\ needs_database /\ CanFault
    /\ faults' = faults + 1
    /\ opLog' = Append(opLog, "create_pool")
    /\ pc' = "aborted"
    /\ UNCHANGED <<inputs, probe, readapi, src, locals, total_stats, pools, pm, writer, exc, store,
                   ghost, errLog, recLog, pre>>

\* downloader.download(url) returns a JSON array
Download ==
    /\ pc = "loop" /\ src <= Len(urls)
    /\ \E data \in Docs : json_data' = data
    /\ fetchLog' = Append(fetchLog, urls[src])
    /\ valid_records' = <<>> /\ gateRun' = FALSE /\ errLog' = <<>> /\ recLog' = <<>>
    /\ opMark' = Mark /\ outcome' = Null
    /\ pc' = "structure"
    /\ UNCHANGED <<inputs, probe, readapi, src, total_stats, pools, pm, writer, exc, store, faults,
                   opLog, srcLog, pre>>

\* downloader.download(url) raises (HTTP status, timeout, transport, bad JSON,
\* root not an array)
DownloadFail ==
    /\ pc = "loop" /\ src <= Len(urls)
    /\ json_data' = <<>>
    /\ fetchLog' = Append(fetchLog, urls[src])
    /\ valid_records' = <<>> /\ gateRun' = FALSE /\ errLog' = <<>> /\ recLog' = <<>>
    /\ opMark' = Mark /\ outcome' = Null
    /\ exc' = Raised("HTTPError")
    /\ pc' = "src_except"
    /\ UNCHANGED <<inputs, probe, readapi, src, total_stats, pools, pm, writer, store, faults,
                   opLog, srcLog, pre>>

\* the failed structure gate falls through to the record gate
structure_failed_falls_through == "records"

\* the source ends here: sources_failed += 1; continue
structure_failed_pc == "source_end"

\* validator.validate_structure, unless --skip-validation
ValidateStructure ==
    /\ pc = "structure"
    /\ IF ~skip_validation /\ ~validate_json_structure_compatibility(json_data)
       THEN /\ total_stats' = [total_stats EXCEPT !.sources_failed = @ + 1]
            /\ errLog' = Append(errLog, "validation_error")
            /\ outcome' = "structure_failed"
            /\ pc' = structure_failed_pc
       ELSE /\ pc' = "records"
            /\ UNCHANGED <<total_stats, errLog, outcome>>
    /\ UNCHANGED <<inputs, probe, readapi, src, locals, pools, pm, writer, exc, store, faults,
                   fetchLog, opLog, opMark, recLog, srcLog, pre, gateRun>>

\* validator.validate_records and the choice of the ingest branch
ValidateRecords ==
    /\ pc = "records"
    /\ valid_records' = validate_records_valid(json_data)
    /\ gateRun' = TRUE
    /\ IF service /\ valid_records' # <<>>
       THEN /\ total_stats' = [total_stats EXCEPT
                                 !.records_skipped = @ + validate_records_invalid(json_data)]
            /\ pc' = "pm_entry"
            /\ outcome' = outcome
       ELSE IF dry_run
       THEN /\ total_stats' = [total_stats EXCEPT
                                 !.records_skipped = @ + validate_records_invalid(json_data),
                                 !.records_inserted = @ + Len(valid_records'),
                                 !.sources_processed = @ + 1]
            /\ outcome' = "dry_run"
            /\ pc' = "source_end"
       ELSE /\ total_stats' = [total_stats EXCEPT
                                 !.records_skipped = @ + validate_records_invalid(json_data)]
            /\ outcome' = "nothing_to_ingest"
            /\ pc' = "source_end"
    /\ UNCHANGED <<inputs, probe, readapi, src, json_data, pools, pm, writer, exc, store, faults,
                   fetchLog, opLog, opMark, errLog, recLog, srcLog, pre>>

\* the exception of one source ends the run
abort_on_source_exception == "aborted"

\* the loop goes on with the next URL
after_source_exception == "source_end"

\* except Exception: log source_processing_failed, sources_failed += 1, continue
HandleSourceException ==
    /\ pc = "src_except"
    /\ total_stats' = [total_stats EXCEPT !.sources_failed = @ + 1]
    /\ errLog' = Append(errLog, "source_processing_failed")
    /\ outcome' = IF exc.type = "HTTPError" THEN "fetch_failed" ELSE "workgroup_failed"
    /\ exc' = Null
    /\ pc' = after_source_exception
    /\ UNCHANGED <<inputs, probe, readapi, src, locals, pools, pm, writer, store, faults,
                   fetchLog, opLog, opMark, recLog, srcLog, pre, gateRun>>

\* end of one iteration of `for url in urls`
EndSource ==
    /\ pc = "source_end"
    /\ srcLog' = Append(srcLog,
                        [url |-> urls[src], doc |-> json_data, outcome |-> outcome,
                         valid |-> valid_records, gate |-> gateRun, stats |-> stats,
                         recs |-> recLog, errs |-> errLog,
                         ops |-> SubSeq(opLog, opMark.ops + 1, Len(opLog)),
                         mark |-> opMark, totals |-> total_stats,
                         faults |-> faults, db |-> db])
    /\ src' = src + 1
    /\ pc' = "loop"
    /\ UNCHANGED <<inputs, probe, readapi, locals, total_stats, pools, pm, writer, exc, store, faults,
                   fetchLog, opLog, opMark, errLog, recLog, pre, gateRun, outcome>>

\* after the loop: close_pool
Finish ==
    /\ pc = "loop" /\ src > Len(urls)
    /\ IF pool = "open"
       THEN pool' = "closed" /\ opLog' = Append(opLog, "close_pool")
       ELSE UNCHANGED <<pool, opLog>>
    /\ pc' = "done"
    /\ UNCHANGED <<inputs, probe, readapi, src, locals, total_stats, service, pm, writer, exc, store,
                   faults, ghost, errLog, recLog, pre>>

(***************************************************************************)
(* IngestionService.process_meetings: workgroup phase.                     *)
(***************************************************************************)
\* the workgroup phase is left out
workgroup_phase_skipped == "meeting_loop"

\* if not dry_run: upsert_workgroups(conn, workgroups)
workgroup_phase_pc == IF dry_run THEN "meeting_loop" ELSE "wg_acquire"

\* stats initialised; extract_unique_workgroups(meetings, original_json_records)
ExtractWorkgroups ==
    /\ pc = "pm_entry" /\ valid_records # <<>>
    /\ stats' = ZeroStats /\ mi' = 1 /\ wgi' = 1
    /\ IF json_data # <<>> /\ extract_raises(json_data)
       THEN /\ workgroups' = <<>>
            /\ exc' = Raised("ValueError")
            /\ pc' = RaisePc
       ELSE /\ workgroups' = extract_unique_workgroups(valid_records, json_data)
            /\ exc' = exc
            /\ pc' = workgroup_phase_pc
    /\ UNCHANGED <<inputs, probe, readapi, src, locals, total_stats, pools, writer, store, faults,
                   ghost, opLog, errLog, recLog, pre>>

\* async with self.db_connection.acquire() as conn (workgroup UPSERT)
AcquireForWorkgroups ==
    /\ pc = "wg_acquire"
    /\ conn' = "held"
    /\ opLog' = Append(opLog, "acquire")
    /\ pc' = "wg_upsert"
    /\ UNCHANGED <<inputs, probe, readapi, src, locals, total_stats, pools, pm, writer, exc, tx, db,
                   faults, ghost, errLog, recLog, pre>>

AcquireForWorkgroupsFail ==
    /\ pc = "wg_acquire" /\ CanFault
    /\ faults' = faults + 1
    /\ opLog' = Append(opLog, "acquire")
    /\ exc' = Raised("PostgresConnectionError")
    /\ pc' = RaisePc
    /\ UNCHANGED <<inputs, probe, readapi, src, locals, total_stats, pools, pm, writer, store,
                   ghost, errLog, recLog, pre>>

\* the statements of a connection act on the open transaction, else on the tables
Execute(table, id, row) ==
    IF tx.open
    THEN /\ tx' = [tx EXCEPT !.view = upsert(@, table, id, row)]
         /\ db' = db
    ELSE /\ db' = upsert(db, table, id, row)
         /\ tx' = tx

\* Workgroup.upsert for the next workgroup of upsert_workgroups
Workgroup_upsert ==
    /\ pc = "wg_upsert" /\ wgi <= Len(workgroups)
    /\ Execute("workgroups", workgroups[wgi].id, workgroups[wgi].row)
    /\ opLog' = Append(Append(opLog, "select:workgroups"), "upsert:workgroups")
    /\ wgi' = wgi + 1
    /\ UNCHANGED <<inputs, probe, readapi, pc, src, locals, total_stats, pools, stats, workgroups, mi,
                   writer, exc, conn, faults, ghost, errLog, recLog, pre>>

\* Workgroup.upsert raises: logged, re-raised out of process_meetings
Workgroup_upsert_fail ==
    /\ pc = "wg_upsert" /\ wgi <= Len(workgroups) /\ CanFault
    /\ faults' = faults + 1
    /\ opLog' = UnwindLog(Append(opLog, "upsert:workgroups"))
    /\ conn' = connection_after_exit /\ tx' = NoTx
    /\ exc' = Raised("PostgresConnectionError")
    /\ pc' = RaisePc
    /\ UNCHANGED <<inputs, probe, readapi, src, locals, total_stats, pools, pm, writer, db,
                   ghost, errLog, recLog, pre>>

\* upsert_workgroups returns; the connection is released
ReleaseAfterWorkgroups ==
    /\ pc = "wg_upsert" /\ wgi > Len(workgroups)
    /\ conn' = connection_after_exit
    /\ opLog' = Append(opLog, "release")
    /\ stats' = [stats EXCEPT !.workgroups_created = Len(workgroups)]
    /\ pc' = "meeting_loop"
    /\ UNCHANGED <<inputs, probe, readapi, src, locals, total_stats, pools, workgroups, wgi, mi, writer,
                   exc, tx, db, faults, ghost, errLog, recLog, pre>>

(***************************************************************************)
(* process_meetings: one meeting.                                          *)
(***************************************************************************)
\* async with self.db_connection.acquire() as conn
AcquireForMeeting ==
    /\ pc = "meeting_loop" /\ mi <= Len(valid_records) /\ ~dry_run
    /\ conn' = "held"
    /\ opLog' = Append(opLog, "acquire")
    /\ pre' = db
    /\ pc' = "m_begin"
    /\ UNCHANGED <<inputs, probe, readapi, src, locals, total_stats, pools, pm, writer, exc, tx, db,
                   faults, ghost, errLog, recLog>>

AcquireForMeetingFail ==
    /\ pc = "meeting_loop" /\ mi <= Len(valid_records) /\ ~dry_run /\ CanFault
    /\ faults' = faults + 1
    /\ opLog' = Append(opLog, "acquire")
    /\ pre' = db
    /\ exc' = Raised("PostgresConnectionError")
    /\ pc' = "m_except"
    /\ UNCHANGED <<inputs, probe, readapi, src, locals, total_stats, pools, pm, writer, store,
                   ghost, errLog, recLog>>

\* async with conn.transaction()
BeginTransaction ==
    /\ pc = "m_begin"
    /\ tx' = begin_transaction(db)
    /\ opLog' = Append(opLog, "begin")
    /\ pc' = "m_prepare"
    /\ UNCHANGED <<inputs, probe, readapi, src, locals, total_stats, pools, pm, writer, exc, conn, db,
                   faults, ghost, errLog, recLog, pre>>

BeginTransactionFail ==
    /\ pc = "m_begin" /\ CanFault
    /\ faults' = faults + 1
    /\ opLog' = UnwindLog(Append(opLog, "begin"))
    /\ conn' = connection_after_exit
    /\ exc' = Raised("PostgresConnectionError")
    /\ pc' = "m_except"
    /\ UNCHANGED <<inputs, probe, readapi, src, locals, total_stats, pools, pm, writer, tx, db,
                   ghost, errLog, recLog, pre>>

\* _process_single_meeting up to the first upsert: date, meeting id, the
\* SELECT of the derived id, the cycle guard
PrepareMeeting ==
    /\ pc = "m_prepare"
    /\ LET m == valid_records[mi]
           meeting_date == parse_date(m.meetingInfo.date)
       IN IF meeting_date = Null
          THEN /\ exc' = Raised("ValueError")
               /\ opLog' = UnwindLog(opLog)
               /\ conn' = connection_after_exit /\ tx' = NoTx
               /\ pc' = "m_except"
               /\ UNCHANGED <<writer, errLog>>
          ELSE LET id == meeting_id_of(m, meeting_date)
                   log == IF SourceId(m.id) = Null
                          THEN Append(opLog, "select:meetings") ELSE opLog
               IN IF detect_circular_reference(raw_json_of(m), MaxDepth)
                  THEN /\ exc' = Raised("ValueError")
                       /\ errLog' = Append(errLog, "circular_reference")
                       /\ opLog' = UnwindLog(log)
                       /\ conn' = connection_after_exit /\ tx' = NoTx
                       /\ cur_id' = id
                       /\ pc' = "m_except"
                       /\ UNCHANGED <<plan, wpos>>
                  ELSE /\ plan' = write_plan(m, id, meeting_date)
                       /\ wpos' = 1
                       /\ cur_id' = id
                       /\ opLog' = log
                       /\ pc' = "m_write"
                       /\ UNCHANGED <<exc, conn, tx, errLog>>
    /\ UNCHANGED <<inputs, probe, readapi, src, locals, total_stats, pools, pm, db, faults, ghost,
                   recLog, pre>>

\* the SELECT of the derived meeting id raises
PrepareMeetingFail ==
    /\ pc = "m_prepare" /\ CanFault
    /\ parse_date(valid_records[mi].meetingInfo.date) # Null
    /\ SourceId(valid_records[mi].id) = Null
    /\ faults' = faults + 1
    /\ opLog' = UnwindLog(Append(opLog, "select:meetings"))
    /\ conn' = connection_after_exit /\ tx' = NoTx
    /\ exc' = Raised("PostgresConnectionError")
    /\ pc' = "m_except"
    /\ UNCHANGED <<inputs, probe, readapi, src, locals, total_stats, pools, pm, writer, db,
                   ghost, errLog, recLog, pre>>

\* Meeting.upsert, AgendaItem.upsert, ActionItem.upsert, DecisionItem.upsert,
\* DiscussionPoint.upsert: the next upsert of the meeting, on table t
Entity_upsert(t) ==
    /\ pc = "m_write" /\ wpos <= Len(plan) /\ plan[wpos].table = t
    /\ Execute(t, plan[wpos].id, plan[wpos].row)
    /\ opLog' = Append(opLog, "upsert:" \o t)
    /\ wpos' = wpos + 1
    /\ UNCHANGED <<inputs, probe, readapi, pc, src, locals, total_stats, pools, pm, plan, cur_id, exc,
                   conn, faults, ghost, errLog, recLog, pre>>

Entity_upsert_fail(t) ==
    /\ pc = "m_write" /\ wpos <= Len(plan) /\ plan[wpos].table = t /\ CanFault
    /\ faults' = faults + 1
    /\ opLog' = UnwindLog(Append(opLog, "upsert:" \o t))
    /\ conn' = connection_after_exit /\ tx' = NoTx
    /\ exc' = Raised("PostgresConnectionError")
    /\ pc' = "m_except"
    /\ UNCHANGED <<inputs, probe, readapi, src, locals, total_stats, pools, pm, writer, db,
                   ghost, errLog, recLog, pre>>

\* _process_single_meeting returns: stats["succeeded"] += 1, inside the transaction
MeetingWritten ==
    /\ pc = "m_write" /\ wpos > Len(plan)
    /\ stats' = [stats EXCEPT !.succeeded = @ + 1]
    /\ pc' = "m_commit"
    /\ UNCHANGED <<inputs, probe, readapi, src, locals, total_stats, pools, workgroups, wgi, mi, writer,
                   exc, store, faults, ghost, opLog, errLog, recLog, pre>>

\* leaving `async with conn.transaction()` normally: COMMIT
Commit ==
    /\ pc = "m_commit"
    /\ db' = IF tx.open THEN tx.view ELSE db
    /\ tx' = NoTx
    /\ opLog' = Append(opLog, "commit")
    /\ recLog' = Append(recLog, [idx |-> mi, id |-> cur_id, result |-> "committed",
                                at |-> Null, type |-> Null, guard |-> FALSE, pre |-> pre, db |-> db'])
    /\ pc' = "m_release"
    /\ UNCHANGED <<inputs, probe, readapi, src, locals, total_stats, pools, pm, writer, exc, conn,
                   faults, ghost, errLog, pre>>

CommitFail ==
    /\ pc = "m_commit" /\ CanFault
    /\ faults' = faults + 1
    /\ opLog' = UnwindLog(Append(opLog, "commit"))
    /\ conn' = connection_after_exit /\ tx' = NoTx
    /\ exc' = Raised("PostgresConnectionError")
    /\ pc' = "m_except"
    /\ UNCHANGED <<inputs, probe, readapi, src, locals, total_stats, pools, pm, writer, db,
                   ghost, errLog, recLog, pre>>

\* leaving `async with acquire()`: release; then stats["processed"] += 1
ReleaseAfterMeeting ==
    /\ pc = "m_release"
    /\ conn' = connection_after_exit
    /\ opLog' = Append(opLog, "release")
    /\ stats' = [stats EXCEPT !.processed = @ + 1]
    /\ mi' = mi + 1
    /\ plan' = <<>> /\ wpos' = 1 /\ cur_id' = Null
    /\ pc' = "meeting_loop"
    /\ UNCHANGED <<inputs, probe, readapi, src, locals, total_stats, pools, workgroups, wgi, exc, tx, db,
                   faults, ghost, errLog, recLog, pre>>

\* the release of the connection raises, after the commit
ReleaseAfterMeetingFail ==
    /\ pc = "m_release" /\ CanFault
    /\ faults' = faults + 1
    /\ conn' = connection_after_exit
    /\ opLog' = Append(opLog, "release")
    /\ exc' = Raised("PostgresConnectionError")
    /\ pc' = "m_except"
    /\ UNCHANGED <<inputs, probe, readapi, src, locals, total_stats, pools, pm, writer, tx, db,
                   ghost, errLog, recLog, pre>>

\* a loop that gives up at the first meeting that fails
stop_after_meeting_exception == "raised"

\* no except clause of the loop body re-raises: the loop goes on
after_meeting_exception == "meeting_loop"

\* the except clauses of the loop body: stats["failed"] += 1, next meeting
ExceptMeeting ==
    /\ pc = "m_except"
    /\ stats' = [stats EXCEPT !.failed = @ + 1]
    /\ errLog' = Append(errLog, IF exc.type = "PostgresConnectionError"
                                THEN "database_connection_error" ELSE "unknown_error")
    /\ recLog' = Append(recLog, [idx |-> mi, id |-> cur_id, result |-> "failed",
                                at |-> exc.at, type |-> exc.type,
                                guard |-> errLog # <<>>
                                          /\ errLog[Len(errLog)] = "circular_reference",
                                pre |-> pre, db |-> db])
    /\ mi' = mi + 1
    /\ plan' = <<>> /\ wpos' = 1 /\ cur_id' = Null
    /\ exc' = Null
    /\ pc' = after_meeting_exception
    /\ UNCHANGED <<inputs, probe, readapi, src, locals, total_stats, pools, workgroups, wgi, store,
                   faults, ghost, opLog, pre>>

\* process_meetings returns stats to _run_ingestion
ReturnStats ==
    /\ pc = "meeting_loop" /\ mi > Len(valid_records) /\ caller = "cli"
    /\ total_stats' = [total_stats EXCEPT !.records_inserted = @ + stats.succeeded,
                                          !.sources_processed = @ + 1]
    /\ outcome' = "processed"
    /\ pc' = "source_end"
    /\ UNCHANGED <<inputs, probe, readapi, src, locals, pools, pm, writer, exc, store, faults,
                   fetchLog, opLog, opMark, errLog, recLog, srcLog, pre, gateRun>>

(***************************************************************************)
(* process_meetings called directly (as the tests and other callers do).   *)
(***************************************************************************)
\* if not meetings: return stats
ReturnEmpty ==
    /\ pc = "pm_entry" /\ valid_records = <<>>
    /\ stats' = ZeroStats
    /\ pc' = "returned"
    /\ UNCHANGED <<inputs, probe, readapi, src, locals, total_stats, pools, workgroups, wgi, mi, writer,
                   exc, store, faults, hist>>

\* _validate_meeting_structure
validate_meeting_structure_raises(m) ==
    Falsy(m.workgroup_id) \/ Falsy(m.meetingInfo.date)

\* the dry-run branch of the loop body
DryRunMeeting ==
    /\ pc = "meeting_loop" /\ mi <= Len(valid_records) /\ dry_run
    /\ pre' = db
    /\ IF validate_meeting_structure_raises(valid_records[mi])
       THEN /\ exc' = Raised("ValueError")
            /\ pc' = "m_except"
            /\ UNCHANGED <<stats, mi, recLog>>
       ELSE /\ stats' = [stats EXCEPT !.succeeded = @ + 1, !.processed = @ + 1]
            /\ recLog' = Append(recLog, [idx |-> mi, id |-> Null, result |-> "dry_run",
                                         at |-> Null, type |-> Null, guard |-> FALSE, pre |-> db, db |-> db])
            /\ mi' = mi + 1
            /\ UNCHANGED <<exc, pc>>
    /\ UNCHANGED <<inputs, probe, readapi, src, locals, total_stats, pools, workgroups, wgi, writer,
                   store, faults, ghost, opLog, errLog>>

\* return stats
ReturnToCaller ==
    /\ pc = "meeting_loop" /\ mi > Len(valid_records) /\ caller = "api"
    /\ pc' = "returned"
    /\ UNCHANGED <<inputs, probe, readapi, src, locals, total_stats, pools, pm, writer, exc, store,
                   faults, hist>>

(***************************************************************************)
(* The ingestion run.                                                      *)
(***************************************************************************)
Next ==
    \/ SetupDatabase
    \/ SetupDatabaseFail
    \/ Download
    \/ DownloadFail
    \/ ValidateStructure
    \/ ValidateRecords
    \/ HandleSourceException
    \/ EndSource
    \/ Finish
    \/ ExtractWorkgroups
    \/ AcquireForWorkgroups
    \/ AcquireForWorkgroupsFail
    \/ Workgroup_upsert
    \/ Workgroup_upsert_fail
    \/ ReleaseAfterWorkgroups
    \/ AcquireForMeeting
    \/ AcquireForMeetingFail
    \/ BeginTransaction
    \/ BeginTransactionFail
    \/ PrepareMeeting
    \/ PrepareMeetingFail
    \/ \E t \in MeetingTables : Entity_upsert(t)
    \/ \E t \in MeetingTables : Entity_upsert_fail(t)
    \/ MeetingWritten
    \/ Commit
    \/ CommitFail
    \/ ReleaseAfterMeeting
    \/ ReleaseAfterMeetingFail
    \/ ExceptMeeting
    \/ ReturnStats

Spec == Init /\ [][Next]_vars

\* a caller that holds an open pool calls process_meetings(meetings, source_url,
\* dry_run) with no original_json_records
InitService ==
    /\ urls = <<Urls[1]>>
    /\ dry_run \in BOOLEAN
    /\ skip_validation = FALSE
    /\ caller = "api"
    /\ pc = "pm_entry"
    /\ pool = "open" /\ service = TRUE
    /\ db \in InitStores
    /\ pre = db
    /\ src = 1 /\ json_data = <<>> /\ total_stats = ZeroTotals
    /\ valid_records \in MeetingLists
    /\ stats = ZeroStats /\ workgroups = <<>> /\ wgi = 1 /\ mi = 1
    /\ plan = <<>> /\ wpos = 1 /\ cur_id = Null /\ exc = Null
    /\ conn = "none" /\ tx = NoTx /\ faults = 0
    /\ fetchLog = <<>> /\ opLog = <<>> /\ opMark = StartMark /\ errLog = <<>> /\ recLog = <<>>
    /\ srcLog = <<>> /\ gateRun = FALSE /\ outcome = Null
    /\ ProbeIdle
    /\ ApiIdle

NextService ==
    \/ ReturnEmpty
    \/ ExtractWorkgroups
    \/ AcquireForWorkgroups
    \/ AcquireForWorkgroupsFail
    \/ Workgroup_upsert
    \/ Workgroup_upsert_fail
    \/ ReleaseAfterWorkgroups
    \/ DryRunMeeting
    \/ AcquireForMeeting
    \/ AcquireForMeetingFail
    \/ BeginTransaction
    \/ BeginTransactionFail
    \/ PrepareMeeting
    \/ PrepareMeetingFail
    \/ \E t \in MeetingTables : Entity_upsert(t)
    \/ \E t \in MeetingTables : Entity_upsert_fail(t)
    \/ MeetingWritten
    \/ Commit
    \/ CommitFail
    \/ ReleaseAfterMeeting
    \/ ReleaseAfterMeetingFail
    \/ ExceptMeeting
    \/ ReturnToCaller

SpecService == InitService /\ [][NextService]_vars

(***************************************************************************)
(* The structure gate alone: validate_json_structure_compatibility applied *)
(* to one parsed document.                                                 *)
(***************************************************************************)
\* an agenda item whose child list f is present and is not an array
GateItemBad(f) == [Item(Null, NoItems, NoItems, NoItems) EXCEPT !.scalar = {f}]
GateItemOk == Item(Null, <<Child(Null, "do x")>>, NoItems, NoItems)

\* n agenda items, the p-th of which (if any) has the malformed child list f
GateAgenda(n, p, f) == [i \in 1..n |-> IF i = p THEN GateItemBad(f) ELSE GateItemOk]

GateAgendas ==
    UNION {{GateAgenda(n, p, f) : p \in 0..n, f \in ChildLists} : n \in 0..MaxItems}

\* first records: RecA with one required field missing, with a malformed
\* meetingInfo or agendaItems, and with every placement of a malformed child
\* list among up to MaxItems agenda items
GatePlain ==
    {[RecA EXCEPT !.present = RequiredTop \ {f}] : f \in RequiredTop}
    \cup {[RecA EXCEPT !.scalar = {f}] : f \in {"meetingInfo", "agendaItems"}}
    \cup {[RecA EXCEPT !.meetingInfo.date = Absent]}
    \cup {[RecA EXCEPT !.agendaItems = a] : a \in GateAgendas}

\* the same record with a field the schema does not mention at each level
WithExtras(r) ==
    [r EXCEPT !.extra = <<Field("extraField", Flat)>>,
              !.meetingInfo.extra = <<Field("room", "R1")>>,
              !.agendaItems = [i \in 1..Len(@) |->
                                  [@[i] EXCEPT !.extra = <<Field("topic", "T")>>]]]

GateSamples == GatePlain \cup {WithExtras(r) : r \in GatePlain}

\* what may follow the first record: nothing, a well-formed record, a
\* record the gate would reject
GateTails == {<<>>, <<RecA>>, <<RecBare>>}

GateDocs == {<<>>} \cup {<<r>> \o t : r \in GateSamples, t \in GateTails}

JsonRoots == {"array", "object", "string", "null"}

InitGate ==
    /\ \/ root = "array" /\ json_data \in GateDocs
       \/ root \in JsonRoots \ {"array"} /\ json_data = <<>>
    /\ verdict = FALSE /\ listing = NoListing
    /\ urls = <<Urls[1]>> /\ dry_run = FALSE /\ skip_validation = FALSE
    /\ caller = "test" /\ pc = "structure"
    /\ pool = "none" /\ service = FALSE
    /\ db = EmptyDB /\ pre = db
    /\ src = 1 /\ valid_records = <<>> /\ total_stats = ZeroTotals
    /\ stats = ZeroStats /\ workgroups = <<>> /\ wgi = 1 /\ mi = 1
    /\ plan = <<>> /\ wpos = 1 /\ cur_id = Null /\ exc = Null
    /\ conn = "none" /\ tx = NoTx /\ faults = 0
    /\ fetchLog = <<>> /\ opLog = <<>> /\ opMark = StartMark /\ errLog = <<>> /\ recLog = <<>>
    /\ srcLog = <<>> /\ gateRun = FALSE /\ outcome = Null
    /\ ApiIdle

\* is_valid, errors = validate_json_structure_compatibility(json_data)
CallStructureGate ==
    /\ pc = "structure" /\ caller = "test"
    /\ verdict' = StructureGate(root, json_data)
    /\ pc' = "returned"
    /\ UNCHANGED <<inputs, coord, svc, exc, store, faults, hist, root, listing, readapi>>

NextGate == CallStructureGate

SpecGate == InitGate /\ [][NextGate]_vars

(***************************************************************************)
(* The dashboard backend (backend/app): requests served concurrently by    *)
(* one process that shares a connection pool; each action is the code      *)
(* between two awaits of a handler.                                        *)
(***************************************************************************)
ExportLimit == 10000    \* if total > 10000: raise HTTPException(413)
PageSize == 50          \* page_size: int = Query(default=50, ...)
MaxPageSize == 100      \* page_size: int = Query(..., ge=1, le=100)

DatabaseUrls == {Null, "postgresql://store"}

Listings == {"get_kpis", "list_meetings", "list_runs", "get_monthly_aggregates",
             "list_alerts"}
Endpoints == Listings \cup {"get_meeting_detail", "acknowledge_alert", "export_meetings"}

\* what the Authorization header carries: nothing, a token that does not
\* verify, tokens of a read-only user and of two administrators
Credentials == {"none", "invalid", "reader", "admin1", "admin2"}

\* extract_role_from_token
extract_role_from_token(cred) == IF cred \in {"admin1", "admin2"} THEN "admin" ELSE "read-only"

get_current_user(cred) ==
    IF dev_auth_bypass THEN [status |-> 200, user_id |-> "dev-user", role |-> "admin"]
    ELSE IF cred \in {"none", "invalid"} THEN [status |-> 401, user_id |-> Null, role |-> Null]
    ELSE [status |-> 200, user_id |-> cred, role |-> extract_role_from_token(cred)]

\* a check that lets every authenticated user through
require_any_user(user) == TRUE

\* require_admin: if not current_user.is_admin(): 403
require_admin(user) == user.role = "admin"

\* the routes declared with Depends(require_admin)
AdminOnly == {"acknowledge_alert"}

\* the ids a request may name
MeetingArgs == DOMAIN StoreWithOldMeeting.meetings \cup {"no-such-meeting"}
AlertArgs == {"e1", "e9"}
ArgsOf(endpoint) ==
    IF endpoint = "get_meeting_detail" THEN MeetingArgs
    ELSE IF endpoint = "acknowledge_alert" THEN AlertArgs
    ELSE {Null}

\* the callers tried on a route: every kind on the admin route and on the
\* alert listing, an anonymous and a read-only caller elsewhere
CredsOf(endpoint) ==
    IF endpoint \in AdminOnly THEN Credentials
    ELSE IF endpoint = "list_alerts" THEN {"none", "reader", "admin1"}
    ELSE {"none", "reader"}

\* response bodies
Detail(text) == [detail |-> text]
EmptyKpis == [total_ingested |-> 0, sources_count |-> 0, success_rate |-> 100,
              duplicates_avoided |-> 0, last_run_timestamp |-> Null]
Min(a, b) == IF a < b THEN a ELSE b
\* PaginatedMeetings; a row of a result is represented by its position
Page(total) == [items |-> [i \in 1..Min(total, PageSize) |-> i], total |-> total,
                page |-> 1, page_size |-> PageSize,
                total_pages |-> (total + PageSize - 1) \div PageSize]
EmptyResult(endpoint) ==
    IF endpoint = "get_kpis" THEN EmptyKpis
    ELSE IF endpoint = "list_meetings"
    THEN [items |-> <<>>, total |-> 0, page |-> 1, page_size |-> PageSize, total_pages |-> 0]
    ELSE <<>>

Reply(status, body) == [status |-> status, body |-> body]

\* a backend that answers 500 on every route when DATABASE_URL is unset
always_needs_database(endpoint) == Reply(500, Detail("DATABASE_URL not configured"))

\* `if not database_url:` at the head of each handler
without_database_url(endpoint) ==
    IF endpoint \in Listings THEN Reply(200, EmptyResult(endpoint))
    ELSE Reply(500, Detail("DATABASE_URL not configured"))

\* the messages the listings treat as harmless
Harmless == {"Event loop is closed", "another operation is in progress"}
\* the messages of the exceptions a store call may raise
StoreErrors == {"connection refused", "Event loop is closed"}

\* the `except Exception` clause of each handler
on_exception(endpoint, message) ==
    IF endpoint \in Listings \ {"get_kpis"} /\ message \in Harmless
    THEN Reply(200, EmptyResult(endpoint))
    ELSE Reply(500, Detail(message))

\* get_db_pool() returned None
with_pool_none(endpoint) ==
    IF endpoint = "get_monthly_aggregates" THEN Reply(200, EmptyResult(endpoint))
    ELSE IF endpoint \in {"get_meeting_detail", "acknowledge_alert"}
    THEN Reply(500, Detail("Database not available"))
    ELSE on_exception(endpoint, "'NoneType' object has no attribute 'acquire'")

\* rows of meeting_summary_view
MeetingCount == archived + Cardinality(DOMAIN db.meetings)

\* the materialized views are refreshed by another system: no row or one
KpiView == {<<>>, <<[EmptyKpis EXCEPT !.total_ingested = 1, !.sources_count = 1]>>}
RunsView == {<<>>, <<1>>}

RECURSIVE Rows(_)
Rows(S) == IF S = {} THEN <<>>
           ELSE LET x == CHOOSE y \in S : TRUE IN <<x>> \o Rows(S \ {x})

\* the alerts list_alerts selects for a user
AlertRows(user) ==
    Rows({a \in error_log : user.role = "admin" \/ a \notin DOMAIN acks})

NoTrace == [get_db_pool |-> FALSE, created |-> FALSE, pool_failed |-> FALSE,
            pool |-> 0, acquire |-> "not tried", reached |-> FALSE]

\* the response leaves the process
Respond(c, req, reply) ==
    /\ resps' = Append(resps, [endpoint |-> req.endpoint,
                               arg |-> req.arg, user |-> req.user,
                               status |-> reply.status, body |-> reply.body,
                               total |-> req.total, trace |-> req.trace,
                               pool |-> api_pool])
    /\ reqs' = [reqs EXCEPT ![c] = NoRequest]

ingestion == <<pc, inputs, coord, svc, exc, conn, tx, faults, hist, probe>>
module_pool == <<api_pool, pools_created, pool_id>>
env == <<database_url, dev_auth_bypass, error_log, archived>>

\* the dependencies of the route, then the handler up to its first await
Receive(c) ==
    /\ caller = "dashboard" /\ reqs[c].step = "idle" /\ served < MaxRequests
    /\ \A d \in Clients : d < c => reqs[d].step # "idle"
    /\ served' = served + 1
    /\ \E endpoint \in Endpoints :
         \E cred \in CredsOf(endpoint), arg \in ArgsOf(endpoint) :
            LET user == get_current_user(cred)
                req == [step |-> "get_db_pool", endpoint |-> endpoint,
                        arg |-> arg, user |-> user, total |-> 0, trace |-> NoTrace]
            IN IF user.status # 200
               THEN Respond(c, req, Reply(401, Detail("Authentication required")))
               ELSE IF endpoint \in AdminOnly /\ ~require_admin(user)
               THEN Respond(c, req, Reply(403, Detail("Admin access required")))
               ELSE IF database_url = Null
               THEN Respond(c, req, without_database_url(endpoint))
               ELSE reqs' = [reqs EXCEPT ![c] = req] /\ UNCHANGED resps
    /\ UNCHANGED <<ingestion, db, env, module_pool, acks_table, acks>>

\* pool = await get_db_pool(): the pool of the module if there is one; else
\* init_db_pool finds `_pool is None` and calls create_pool, and
\* `_pool = await asyncpg.create_pool(...)` suspends the request between the
\* test and the assignment
GetDbPool(c) ==
    /\ reqs[c].step = "get_db_pool"
    /\ reqs' = [reqs EXCEPT ![c].step = IF api_pool # "none" THEN "acquire" ELSE "create_pool",
                            ![c].trace.get_db_pool = TRUE,
                            ![c].trace.pool = pool_id]
    /\ UNCHANGED <<ingestion, db, env, module_pool, resps, served, acks_table, acks>>

\* create_pool returns: `_pool = <the new pool>; return _pool`
CreatePool(c) ==
    /\ reqs[c].step = "create_pool"
    /\ api_pool' = "open"
    /\ pools_created' = pools_created + 1
    /\ pool_id' = pools_created'
    /\ reqs' = [reqs EXCEPT ![c].step = "acquire",
                            ![c].trace.created = TRUE,
                            ![c].trace.pool = pool_id']
    /\ UNCHANGED <<ingestion, db, env, resps, served, acks_table, acks>>

\* create_pool raises: get_db_pool returns None, and the handler goes on
GetDbPoolFail(c) ==
    /\ reqs[c].step = "create_pool"
    /\ Respond(c, [reqs[c] EXCEPT !.trace.pool_failed = TRUE],
               with_pool_none(reqs[c].endpoint))
    /\ UNCHANGED <<ingestion, db, env, module_pool, served, acks_table, acks>>

\* async with pool.acquire() as conn
Acquire(c) ==
    /\ reqs[c].step = "acquire"
    /\ reqs' = [reqs EXCEPT ![c].step = "query", ![c].trace.acquire = "ok"]
    /\ UNCHANGED <<ingestion, db, env, module_pool, resps, served, acks_table, acks>>

AcquireFail(c) ==
    /\ reqs[c].step = "acquire"
    /\ \E message \in StoreErrors :
          Respond(c, [reqs[c] EXCEPT !.trace.acquire = message],
                  on_exception(reqs[c].endpoint, message))
    /\ UNCHANGED <<ingestion, db, env, module_pool, served, acks_table, acks>>

\* the first statement on the connection, and the answer of the routes that
\* issue no other
Query(c) ==
    /\ reqs[c].step = "query"
    /\ LET req == [reqs[c] EXCEPT !.trace.reached = TRUE]
           endpoint == req.endpoint
       IN CASE endpoint = "get_kpis" ->
                 \E v \in KpiView :
                    Respond(c, req, Reply(200, IF v = <<>> THEN EmptyKpis ELSE v[1]))
            [] endpoint = "list_meetings" ->
                 Respond(c, req, Reply(200, Page(MeetingCount)))
            [] endpoint \in {"list_runs", "get_monthly_aggregates"} ->
                 \E v \in RunsView : Respond(c, req, Reply(200, v))
            [] endpoint = "list_alerts" ->
                 IF acks_table THEN Respond(c, req, Reply(200, AlertRows(req.user)))
                 ELSE Respond(c, req, on_exception(endpoint,
                                  "relation alert_acknowledgments does not exist"))
            [] endpoint = "get_meeting_detail" ->
                 IF req.arg \in DOMAIN db.meetings
                 THEN Respond(c, req, Reply(200, [id |-> req.arg]))
                 ELSE Respond(c, req, Reply(404, Detail("Meeting not found")))
            [] endpoint = "acknowledge_alert" ->
                 IF req.arg \in error_log
                 THEN reqs' = [reqs EXCEPT ![c] = [req EXCEPT !.step = "upsert"]]
                      /\ UNCHANGED resps
                 ELSE Respond(c, req, Reply(404, Detail("Alert not found")))
            [] endpoint = "export_meetings" ->
                 LET total == MeetingCount
                 IN IF total > ExportLimit
                    THEN Respond(c, [req EXCEPT !.total = total],
                                 Reply(413, Detail("Export exceeds 10,000 rows")))
                    ELSE reqs' = [reqs EXCEPT ![c] = [req EXCEPT !.step = "rows",
                                                                 !.total = total]]
                         /\ UNCHANGED resps
    /\ UNCHANGED <<ingestion, db, env, module_pool, served, acks_table, acks>>

\* CREATE TABLE IF NOT EXISTS alert_acknowledgments; INSERT ... ON CONFLICT
\* (alert_id) DO UPDATE SET acknowledged_by = EXCLUDED.acknowledged_by
AcknowledgeUpsert(c) ==
    /\ reqs[c].step = "upsert"
    /\ acks_table' = TRUE
    /\ acks' = Put(acks, reqs[c].arg, [acknowledged_by |-> reqs[c].user.user_id])
    /\ Respond(c, reqs[c], Reply(200, [message |-> "acknowledged",
                                       acknowledged_by |-> reqs[c].user.user_id]))
    /\ UNCHANGED <<ingestion, db, env, module_pool, served>>

\* rows = await conn.fetch(query, *params): the rows there are now
ExportRows(c) ==
    /\ reqs[c].step = "rows"
    /\ Respond(c, reqs[c], Reply(200, [rows |-> MeetingCount]))
    /\ UNCHANGED <<ingestion, db, env, module_pool, served, acks_table, acks>>

\* an ingestion run, another process, commits the transaction of one meeting
IngestionCommits ==
    /\ caller = "dashboard"
    /\ LET m == MeetingSummary(RecA)
           meeting_date == parse_date(m.meetingInfo.date)
           id == meeting_id_of(m, meeting_date)
       IN /\ id \notin DOMAIN db.meetings
          /\ db' = apply_ops(db, extract_unique_workgroups(<<m>>, <<RecA>>)
                                 \o write_plan(m, id, meeting_date), 1)
    /\ UNCHANGED <<ingestion, readapi>>

\* main.py startup_event: init_db_pool when DATABASE_URL is set; a failure
\* is logged and the application starts without a pool
InitApi ==
    /\ database_url \in DatabaseUrls
    /\ dev_auth_bypass \in BOOLEAN
    /\ api_pool \in (IF database_url = Null THEN {"none"} ELSE {"none", "open"})
    /\ pools_created = (IF api_pool = "open" THEN 1 ELSE 0) /\ pool_id = pools_created
    /\ reqs = [c \in Clients |-> NoRequest] /\ resps = <<>> /\ served = 0
    /\ acks_table = FALSE /\ acks = EmptyFn
    /\ error_log = {"e1"}
    /\ archived = ExportLimit - 1
    /\ db \in InitStores /\ pre = db
    /\ urls = <<Urls[1]>> /\ dry_run = FALSE /\ skip_validation = FALSE
    /\ caller = "dashboard" /\ pc = "done"
    /\ pool = "none" /\ service = FALSE
    /\ src = 1 /\ json_data = <<>> /\ valid_records = <<>> /\ total_stats = ZeroTotals
    /\ stats = ZeroStats /\ workgroups = <<>> /\ wgi = 1 /\ mi = 1
    /\ plan = <<>> /\ wpos = 1 /\ cur_id = Null /\ exc = Null
    /\ conn = "none" /\ tx = NoTx /\ faults = 0
    /\ fetchLog = <<>> /\ opLog = <<>> /\ opMark = StartMark /\ errLog = <<>> /\ recLog = <<>>
    /\ srcLog = <<>> /\ gateRun = FALSE /\ outcome = Null
    /\ ProbeIdle

NextApi ==
    \/ \E c \in Clients : Receive(c)
    \/ \E c \in Clients : GetDbPool(c)
    \/ \E c \in Clients : CreatePool(c)
    \/ \E c \in Clients : GetDbPoolFail(c)
    \/ \E c \in Clients : Acquire(c)
    \/ \E c \in Clients : AcquireFail(c)
    \/ \E c \in Clients : Query(c)
    \/ \E c \in Clients : AcknowledgeUpsert(c)
    \/ \E c \in Clients : ExportRows(c)
    \/ IngestionCommits

SpecApi == InitApi /\ [][NextApi]_vars

TypeOK ==
    /\ pc \in {"setup", "loop", "structure", "records", "src_except", "source_end",
               "pm_entry", "wg_acquire", "wg_upsert", "meeting_loop", "m_begin",
               "m_prepare", "m_write", "m_commit", "m_release", "m_except",
               "done", "aborted", "raised", "returned", "cancelled"}
    /\ conn \in {"none", "held"}
    /\ faults \in 0..MaxFaults

(***************************************************************************)
(* Properties.                                                             *)
(***************************************************************************)
\* the records of a finished source that the record gate accepts
AllValid(doc) == \A i \in 1..Len(doc) : record_is_valid(doc[i])

\* no store failure was injected while source k ran
NoFaultIn(k) == srcLog[k].faults = srcLog[k].mark.faults

\* C1: when a document whose records all pass validation is ingested twice in
\* a row and the store does not fail, the second ingest leaves every one of
\* the six tables with the keys and the rows the first ingest left, whatever
\* the store held before.
C1_ReingestConverges ==
    \A k \in 1..(Len(srcLog) - 1) :
        (/\ ~dry_run
         /\ srcLog[k].outcome # "fetch_failed" /\ srcLog[k + 1].outcome # "fetch_failed"
         /\ srcLog[k + 1].doc = srcLog[k].doc
         /\ AllValid(srcLog[k].doc)
         /\ NoFaultIn(k) /\ NoFaultIn(k + 1))
        => \A t \in Tables :
              /\ DOMAIN srcLog[k + 1].db[t] = DOMAIN srcLog[k].db[t]
              /\ srcLog[k + 1].db[t] = srcLog[k].db[t]

\* the document <<RecB, RecC>>, whose records share an agenda-item id, was
\* ingested twice over a store that held an older version of one meeting
C1_Witness ==
    /\ ~dry_run /\ Len(srcLog) = 2 /\ faults = 0
    /\ srcLog[1].doc = <<RecB, RecC>> /\ srcLog[2].doc = <<RecB, RecC>>
    /\ srcLog[1].stats.succeeded = 2 /\ srcLog[2].stats.succeeded = 2
    /\ srcLog[1].mark.db = StoreWithOldMeeting
    /\ srcLog[1].db # StoreWithOldMeeting

\* the steps of one meeting that run inside its transaction
InTransaction == {"m_prepare", "m_write", "m_commit"}

\* C2: when a step of writing one meeting fails after its transaction was
\* opened (date parsing, cycle check, an upsert, the commit), the five meeting
\* tables are as they were before that record; this stays so when the record
\* is counted as failed.
C2_FailedMeetingLeavesNoRow ==
    /\ (pc = "m_except" /\ exc.at \in InTransaction)
          => \A t \in MeetingTables : db[t] = pre[t]
    /\ \A i \in 1..Len(recLog) :
          (recLog[i].result = "failed" /\ recLog[i].at \in InTransaction)
              => \A t \in MeetingTables : recLog[i].db[t] = recLog[i].pre[t]

\* an upsert of a child row failed after the meeting row and an agenda item
\* had been upserted in the transaction
C2_Witness ==
    /\ pc = "m_except" /\ exc.at = "m_write" /\ wpos > 2
    /\ plan[1].id \notin DOMAIN db.meetings

\* the records of a document that the record gate rejects
Malformed(doc) == {i \in 1..Len(doc) : ~record_is_valid(doc[i])}

\* a record that the writer accepts when the store does not fail
Writable(r) ==
    /\ parse_date(r.meetingInfo.date) # Null
    /\ ~detect_circular_reference(raw_json_of(MeetingSummary(r)), MaxDepth)

\* the meeting of record r has a row in the tables
Persisted(tables, r) ==
    meeting_id_of(MeetingSummary(r), parse_date(r.meetingInfo.date)) \in DOMAIN tables.meetings

\* C3 (as stated): in a non-dry-run ingest of a document that passes the
\* structure gate and in which exactly one record, not the first, is
\* malformed, every other record is persisted and exactly one record is
\* reported as failed.
C3_MalformedRecordIsIsolated ==
    \A k \in 1..Len(srcLog) :
        LET e == srcLog[k] IN
        (/\ ~dry_run
         /\ e.outcome \notin {"fetch_failed", "structure_failed"}
         /\ Cardinality(Malformed(e.doc)) = 1 /\ 1 \notin Malformed(e.doc)
         /\ \A i \in 1..Len(e.doc) : i \notin Malformed(e.doc) => Writable(e.doc[i])
         /\ NoFaultIn(k))
        => /\ \A i \in 1..Len(e.doc) : i \notin Malformed(e.doc) => Persisted(e.db, e.doc[i])
           /\ e.totals.records_skipped = e.mark.totals.records_skipped + 1
           /\ e.totals.sources_failed = e.mark.totals.sources_failed
           /\ e.stats.failed = 0

\* a malformed record whose workgroup_id is a UUID is isolated: the document
\* <<RecA, RecBlank>> ends with RecA persisted and one record skipped
C3_IsolatedWhenWorkgroupIdParses ==
    /\ ~dry_run /\ Len(srcLog) >= 1
    /\ srcLog[1].doc = <<RecA, RecBlank>>
    /\ srcLog[1].outcome = "processed"
    /\ Persisted(srcLog[1].db, RecA)
    /\ srcLog[1].totals.records_skipped = 1

\* the URLs of the sources that have been started
Started ==
    IF pc \in {"setup", "aborted"} THEN 0
    ELSE IF pc \in {"loop", "done"} THEN src - 1 ELSE src

\* C4: the coordinator fetches each URL of the list once, in list order, with
\* no second fetch of a URL position; whatever the outcome of a source (fetch
\* error, structure-gate failure, workgroup failure, failed records) the run
\* goes on to the next source, so a run that entered the loop ends with every
\* URL fetched and every source closed.
C4_OneFetchPerUrlInOrder ==
    /\ IsPrefix(fetchLog, urls)
    /\ Len(fetchLog) = Started
    /\ Len(srcLog) \in {Len(fetchLog) - 1, Len(fetchLog)}
    /\ \A k \in 1..Len(srcLog) : srcLog[k].url = urls[k]
    /\ (pc = "aborted" => fetchLog = <<>>)
    /\ (pc = "done" => fetchLog = urls /\ Len(srcLog) = Len(urls))
    /\ (pc \notin {"done", "aborted"} => ENABLED Next)

\* a source failed in its workgroup phase and the next source was fetched
\* and its records written
C4_Witness ==
    /\ pc = "done" /\ Len(urls) = 2 /\ fetchLog = urls
    /\ srcLog[1].outcome = "workgroup_failed"
    /\ srcLog[2].outcome = "processed" /\ srcLog[2].stats.succeeded > 0

\* the store calls of the source being processed
SourceOps == SubSeq(opLog, opMark.ops + 1, Len(opLog))

CountOf(ops, op) == Cardinality({i \in 1..Len(ops) : ops[i] = op})

\* the workgroup ids of the validated records of the source
WorkgroupIds == {uuid_UUID(valid_records[i].workgroup_id) : i \in 1..Len(valid_records)}

\* the tables as the connection in use sees them
Visible == IF tx.open THEN tx.view ELSE db

MeetingPhase == {"meeting_loop", "m_begin", "m_prepare", "m_write", "m_commit",
                 "m_release", "m_except"}

\* C5: in a non-dry-run, a meeting upsert of a source is issued only after one
\* upsert for each unique workgroup of the source has completed, and none
\* after it; every meeting row, committed or in the open transaction,
\* references a committed workgroup row; a source whose workgroup phase
\* failed issued no meeting upsert and left the five meeting tables alone.
C5_WorkgroupsBeforeMeetings ==
    /\ \A i \in 1..Len(SourceOps) :
          SourceOps[i] = "upsert:meetings"
            => /\ CountOf(SubSeq(SourceOps, 1, i), "upsert:workgroups")
                    = Cardinality(WorkgroupIds)
               /\ CountOf(SourceOps, "upsert:workgroups") = Cardinality(WorkgroupIds)
    /\ (~dry_run /\ pc \in MeetingPhase) => WorkgroupIds \subseteq DOMAIN db.workgroups
    /\ \A id \in DOMAIN Visible.meetings :
          Visible.meetings[id].workgroup_id \in DOMAIN db.workgroups
    /\ \A k \in 1..Len(srcLog) :
          srcLog[k].outcome = "workgroup_failed"
            => /\ CountOf(srcLog[k].ops, "upsert:meetings") = 0
               /\ \A t \in MeetingTables : srcLog[k].db[t] = srcLog[k].mark.db[t]

\* after a source whose workgroup phase failed, the meeting row of the first
\* record of a source with two workgroups has just been upserted
C5_Witness ==
    /\ Len(srcLog) = 1 /\ srcLog[1].outcome = "workgroup_failed"
    /\ pc = "m_write" /\ wpos = 2 /\ mi = 1
    /\ Len(workgroups) = 2
    /\ SourceOps[Len(SourceOps)] = "upsert:meetings"

\* the agenda-item rows of a meeting
AgendaRowsOf(tables, meeting_id) ==
    {a \in DOMAIN tables.agenda_items : tables.agenda_items[a].meeting_id = meeting_id}

\* every source so far was ingested with no failure of any kind
OnlySuccessfulIngests ==
    /\ faults = 0
    /\ \A k \in 1..Len(srcLog) :
          srcLog[k].outcome = "processed" /\ srcLog[k].stats.failed = 0

\* C7 (as stated): after any sequence of successful ingests every meeting of
\* the store has agenda-item rows whose order_index values are exactly
\* 0..n-1, each once, in the order of the agendaItems array of the record
\* ingested for that meeting.
C7_OrderIndexDense ==
    (~dry_run /\ pc \in {"loop", "done"} /\ OnlySuccessfulIngests)
    => \A id \in DOMAIN db.meetings :
          LET items == db.meetings[id].raw_json.agendaItems
              rows == AgendaRowsOf(db, id)
          IN /\ Cardinality(rows) = Len(items)
             /\ {db.agenda_items[a].order_index : a \in rows} = 0..(Len(items) - 1)
             /\ \A a \in rows :
                   db.agenda_items[a].raw_json = items[db.agenda_items[a].order_index + 1]

\* one ingest of a meeting into an empty store does leave dense order indexes
C7_DenseAfterFirstIngest ==
    /\ ~dry_run /\ pc = "done" /\ OnlySuccessfulIngests
    /\ Len(srcLog) = 1 /\ srcLog[1].doc = <<RecCOld>> /\ srcLog[1].mark.db = EmptyDB
    /\ {db.agenda_items[a].order_index : a \in AgendaRowsOf(db, "m1")} = {0, 1}

\* C8: in dry-run mode no store operation is invoked (no pool, no connection,
\* no query, no upsert, the tables stay as they were) and, for every document
\* that reaches the record gate, the run counts as processed the records the
\* gate accepted and as failed the records it rejected.
C8_DryRunTouchesNoStore ==
    dry_run =>
        /\ opLog = <<>> /\ pool = "none" /\ conn = "none" /\ ~tx.open
        /\ db = StartMark.db /\ db = pre
        /\ \A k \in 1..Len(srcLog) :
              LET e == srcLog[k] IN
              e.gate =>
                 /\ e.totals.records_inserted - e.mark.totals.records_inserted
                       = Len(e.doc) - Cardinality(Malformed(e.doc))
                 /\ e.totals.records_skipped - e.mark.totals.records_skipped
                       = Cardinality(Malformed(e.doc))
                 /\ e.ops = <<>>
                 /\ e.db = e.mark.db

\* a dry run over a document with an accepted and a rejected record has ended
C8_Witness ==
    /\ dry_run /\ pc = "done" /\ Len(srcLog) = 1
    /\ srcLog[1].doc = <<RecA, RecBadWg>>
    /\ total_stats.records_inserted = 1 /\ total_stats.records_skipped = 1

\* C9: unless validation is skipped, a document the structure gate rejects
\* never reaches the record gate, none of its records is written and no store
\* call is made for its source; the source is counted as failed once and
\* closed, and the loop goes on with the next URL.
C9_StructureFailureEndsSource ==
    /\ pc \in {"records", "pm_entry"} \cup MeetingPhase
          => skip_validation \/ validate_json_structure_compatibility(json_data)
    /\ \A k \in 1..Len(srcLog) :
          LET e == srcLog[k] IN
          /\ (~skip_validation /\ e.outcome # "fetch_failed"
                /\ ~validate_json_structure_compatibility(e.doc))
                => e.outcome = "structure_failed"
          /\ e.outcome = "structure_failed"
                => /\ ~e.gate /\ e.valid = <<>> /\ e.recs = <<>>
                   /\ e.ops = <<>>
                   /\ e.db = e.mark.db
                   /\ e.totals.sources_failed = e.mark.totals.sources_failed + 1
                   /\ e.totals.records_inserted = e.mark.totals.records_inserted
                   /\ e.errs = <<"validation_error">>
    /\ (pc = "source_end" /\ outcome = "structure_failed") => ENABLED EndSource
    /\ (pc = "done" => Len(srcLog) = Len(urls))

\* the structure gate rejected the first source and the second was ingested
C9_Witness ==
    /\ ~dry_run /\ pc = "done" /\ Len(srcLog) = 2
    /\ srcLog[1].outcome = "structure_failed" /\ srcLog[1].doc = <<RecBare, RecA>>
    /\ srcLog[2].outcome = "processed" /\ srcLog[2].stats.succeeded > 0

\* the records of the call that reached the id derivation, with no source id
Derived == {i \in 1..Len(recLog) : recLog[i].id # Null
                                    /\ SourceId(valid_records[recLog[i].idx].id) = Null}

MeetingAt(i) == valid_records[recLog[i].idx]

\* the calendar date and the canonical workgroup id a record denotes
DateOf(m) == DateTable[m.meetingInfo.date]
CanonicalWorkgroup(m) == IF m.workgroup_id = "W1" THEN "w1" ELSE m.workgroup_id

\* host and purpose as the key uses them: null and the empty string are one value
Blank(v) == IF v \in {Null, ""} THEN "" ELSE v

\* the fields, of the five, on which two records differ: as the record states
\* them, and with null and "" taken as one value
DifferingFields(a, b) ==
    {f \in {"workgroup_id", "date", "host", "purpose", "agenda_count"} :
        CASE f = "workgroup_id" -> CanonicalWorkgroup(a) # CanonicalWorkgroup(b)
          [] f = "date" -> DateOf(a) # DateOf(b)
          [] f = "host" -> a.meetingInfo.host # b.meetingInfo.host
          [] f = "purpose" -> a.meetingInfo.purpose # b.meetingInfo.purpose
          [] f = "agenda_count" -> Len(a.agendaItems) # Len(b.agendaItems)}

DifferingKeyFields(a, b) ==
    {f \in {"workgroup_id", "date", "host", "purpose", "agenda_count"} :
        CASE f = "workgroup_id" -> CanonicalWorkgroup(a) # CanonicalWorkgroup(b)
          [] f = "date" -> DateOf(a) # DateOf(b)
          [] f = "host" -> Blank(a.meetingInfo.host) # Blank(b.meetingInfo.host)
          [] f = "purpose" -> Blank(a.meetingInfo.purpose) # Blank(b.meetingInfo.purpose)
          [] f = "agenda_count" -> Len(a.agendaItems) # Len(b.agendaItems)}

\* both records of a call that wrote two records have a meeting row
BothPersisted(i, j) ==
    (/\ ~dry_run /\ pc = "returned" /\ faults = 0
     /\ recLog[i].result = "committed" /\ recLog[j].result = "committed")
    => {recLog[i].id, recLog[j].id} \subseteq DOMAIN db.meetings

RECURSIVE Below(_, _, _)
Below(h, frontier, seen) ==
    LET next == UNION {Range(h.kids[n]) : n \in frontier} \ seen
    IN IF next = {} THEN seen ELSE Below(h, next, seen \cup next)

Descendants(h, n) == Below(h, {n}, {})

\* a container of the object graph is its own ancestor
OwnAncestor(h) ==
    \E n \in {h.root} \cup Descendants(h, h.root) : n \in Descendants(h, n)

\* the levels of the graph below node n, counted up to `most`
RECURSIVE Levels(_, _, _)
Levels(h, n, most) ==
    IF most = 0 THEN 0
    ELSE LET below == {Levels(h, h.kids[n][i], most - 1) : i \in 1..Len(h.kids[n])}
         IN 1 + (IF below = {} THEN 0 ELSE CHOOSE x \in below : \A y \in below : y <= x)

\* more than MaxDepth levels of nesting, or a container that is its own ancestor
TooDeepOrCyclic(h) == Levels(h, h.root, MaxDepth + 1) > MaxDepth \/ OwnAncestor(h)

\* the record of recLog[i] passed the date parsing and reached the cycle check
ReachedGuard(i) ==
    /\ recLog[i].result = "failed" /\ recLog[i].at = "m_prepare"
    /\ recLog[i].type = "ValueError"
    /\ parse_date(MeetingAt(i).meetingInfo.date) # Null

\* C10: the writer rejects a record at its cycle check exactly when the
\* raw_json graph has more than 10 levels or holds a container that is its
\* own ancestor (an object shared by siblings does not count); the rejected
\* record is one failed record, logged with error type circular_reference,
\* no row of the five meeting tables is written for it, and the other records
\* of the call are still written.
C10_CycleGuard ==
    /\ \A i \in 1..Len(recLog) :
          LET raw == raw_json_of(MeetingAt(i)) IN
          /\ recLog[i].guard <=> (ReachedGuard(i) /\ TooDeepOrCyclic(raw))
          /\ ReachedGuard(i) => TooDeepOrCyclic(raw)
          /\ (TooDeepOrCyclic(raw) /\ recLog[i].result # "dry_run")
                => /\ recLog[i].result = "failed"
                   /\ \A t \in MeetingTables : recLog[i].db[t] = recLog[i].pre[t]
    /\ pc = "returned"
          => /\ stats.failed = CountOf([i \in 1..Len(recLog) |-> recLog[i].result], "failed")
             /\ (~dry_run /\ faults = 0)
                   => \A k \in 1..Len(valid_records) :
                         \/ parse_date(valid_records[k].meetingInfo.date) = Null
                         \/ TooDeepOrCyclic(raw_json_of(valid_records[k]))
                         \/ \E i \in 1..Len(recLog) :
                               recLog[i].idx = k /\ recLog[i].result = "committed"

\* a record whose cached dump holds a container that is its own ancestor was
\* rejected, and the record after it, whose dump shares an object between
\* siblings, was written
C10_Witness ==
    /\ ~dry_run /\ pc = "returned" /\ faults = 0 /\ Len(recLog) = 2
    /\ valid_records[1].hasCached /\ valid_records[1].cached = Cyclic(3, 1)
    /\ valid_records[2].hasCached /\ valid_records[2].cached = Shared(MaxDepth)
    /\ recLog[1].guard /\ recLog[1].result = "failed"
    /\ recLog[2].result = "committed" /\ recLog[2].id \in DOMAIN db.meetings
    /\ stats.failed = 1 /\ stats.succeeded = 1

\* record r without the fields that the schema does not mention
StripChild(c) == [c EXCEPT !.extra = NoExtra]
StripItem(item) ==
    [item EXCEPT !.extra = NoExtra,
                 !.actionItems = [i \in 1..Len(@) |-> StripChild(@[i])],
                 !.decisionItems = [i \in 1..Len(@) |-> StripChild(@[i])],
                 !.discussionPoints = [i \in 1..Len(@) |-> StripChild(@[i])]]
Strip(r) ==
    [r EXCEPT !.extra = NoExtra, !.meetingInfo.extra = NoExtra,
              !.agendaItems = [i \in 1..Len(@) |-> StripItem(@[i])]]

\* every object of x keeps its unmentioned fields in y, which may hold more
KeepsChildFields(xs, ys) == \A i \in 1..Len(xs) : IsPrefix(xs[i].extra, ys[i].extra)
KeepsItemFields(x, y) ==
    /\ IsPrefix(x.extra, y.extra)
    /\ KeepsChildFields(x.actionItems, y.actionItems)
    /\ KeepsChildFields(x.decisionItems, y.decisionItems)
    /\ KeepsChildFields(x.discussionPoints, y.discussionPoints)

\* record b is record a with fields added that the schema does not mention
AddsFields(a, b) ==
    /\ a # b /\ Strip(a) = Strip(b)
    /\ IsPrefix(a.extra, b.extra)
    /\ IsPrefix(a.meetingInfo.extra, b.meetingInfo.extra)
    /\ \A i \in 1..Len(a.agendaItems) : KeepsItemFields(a.agendaItems[i], b.agendaItems[i])

\* the ids and normalized attributes of the upserts of a plan
Normalized(ops) ==
    [i \in 1..Len(ops) |->
        [table |-> ops[i].table, id |-> ops[i].id,
         row |-> [f \in (DOMAIN ops[i].row) \ {"raw_json"} |-> ops[i].row[f]]]]

\* what the writer upserts for an accepted record when the store does not fail
WrittenFor(r) ==
    LET m == MeetingSummary(r)
        d == parse_date(r.meetingInfo.date)
    IN IF Writable(r) THEN Normalized(write_plan(m, meeting_id_of(m, d), d)) ELSE <<>>

\* the position among the accepted records of the i-th record of a document
ValidIndex(doc, i) == Cardinality({k \in 1..i : record_is_valid(doc[k])})

\* how the writer ended the k-th accepted record of a finished source
ResultOf(e, k) ==
    IF \E n \in 1..Len(e.recs) : e.recs[n].idx = k
    THEN e.recs[CHOOSE n \in 1..Len(e.recs) : e.recs[n].idx = k].result
    ELSE "none"

\* C11 (as stated): when a record the record gate accepts and the same record
\* with added fields that the schema does not mention (at the top level, in
\* meetingInfo, in an agenda item or in an action, decision or discussion
\* element) are in one document, the gate accepts both, the writer ends both
\* the same way, and the ids and normalized attributes written are the same.
C11_ExtraFieldsChangeNothing ==
    \A k \in 1..Len(srcLog) :
        LET e == srcLog[k] IN
        (e.gate /\ NoFaultIn(k) /\ e.outcome \in {"processed", "dry_run"})
        => /\ Len(e.valid) = ValidIndex(e.doc, Len(e.doc))
           /\ \A i, j \in 1..Len(e.doc) :
                 (record_is_valid(e.doc[i]) /\ AddsFields(e.doc[i], e.doc[j]))
                 => /\ record_is_valid(e.doc[j])
                    /\ WrittenFor(e.doc[j]) = WrittenFor(e.doc[i])
                    /\ e.outcome = "processed"
                          => ResultOf(e, ValidIndex(e.doc, j)) = ResultOf(e, ValidIndex(e.doc, i))

\* fields added at the top level, in meetingInfo, in an agenda item and in an
\* action item changed nothing: both records were accepted and written, and
\* the rows hold the attributes of the record without the fields
C11_OpenWhereFieldsAreDeclared ==
    /\ ~dry_run /\ Len(srcLog) = 1 /\ faults = 0
    /\ srcLog[1].doc = <<RecA, RecAX>> /\ AddsFields(RecA, RecAX)
    /\ Len(srcLog[1].valid) = 2
    /\ ResultOf(srcLog[1], 1) = "committed" /\ ResultOf(srcLog[1], 2) = "committed"
    /\ WrittenFor(RecAX) = WrittenFor(RecA)
    /\ \A i \in 1..Len(WrittenFor(RecA)) :
          LET op == WrittenFor(RecA)[i] IN
          /\ op.id \in DOMAIN db[op.table]
          /\ \A f \in DOMAIN op.row : db[op.table][op.id][f] = op.row[f]

\* the record of a document that the k-th accepted record was parsed from
SourceOf(doc, k) ==
    doc[CHOOSE i \in 1..Len(doc) : record_is_valid(doc[i]) /\ ValidIndex(doc, i) = k]

\* the fragments of a record that the upserts of its plan are made from, in
\* the order of the plan: the record, then each agenda item followed by its
\* action items, decision items and discussion points
RECURSIVE ItemFragments(_)
ItemFragments(items) ==
    IF items = <<>> THEN <<>>
    ELSE <<Head(items)>> \o DropWithoutText(Head(items).actionItems)
         \o Head(items).decisionItems \o Head(items).discussionPoints
         \o ItemFragments(Tail(items))

SourceFragments(r) == <<r>> \o ItemFragments(r.agendaItems)

\* raw_json holds every field and every element of the fragment
KeepsChild(raw, c) == IsPrefix(c.extra, raw.extra)
KeepsChildren(raws, cs) ==
    Len(raws) = Len(cs) /\ \A i \in 1..Len(cs) : KeepsChild(raws[i], cs[i])
KeepsItem(raw, item) ==
    /\ IsPrefix(item.extra, raw.extra)
    /\ KeepsChildren(raw.actionItems, item.actionItems)
    /\ KeepsChildren(raw.decisionItems, item.decisionItems)
    /\ KeepsChildren(raw.discussionPoints, item.discussionPoints)
KeepsRecord(raw, r) ==
    /\ IsPrefix(r.extra, raw.extra)
    /\ IsPrefix(r.meetingInfo.extra, raw.meetingInfo.extra)
    /\ Len(raw.agendaItems) = Len(r.agendaItems)
    /\ \A i \in 1..Len(r.agendaItems) : KeepsItem(raw.agendaItems[i], r.agendaItems[i])
Keeps(table, raw, fragment) ==
    CASE table = "meetings" -> KeepsRecord(raw, fragment)
      [] table = "agenda_items" -> KeepsItem(raw, fragment)
      [] OTHER -> KeepsChild(raw, fragment)

\* C12 (as stated): once a record is committed, the raw_json of its meeting
\* row and of each of its agenda-item, action-item, decision-item and
\* discussion-point rows holds every field of the fragment of the source
\* record the row was made from, the fields that the schema does not mention
\* at any level and the elements that normalization ignored included.
C12_RawJsonKeepsSourceFragment ==
    \A k \in 1..Len(srcLog) : \A n \in 1..Len(srcLog[k].recs) :
        LET e == srcLog[k]
            rec == e.recs[n]
        IN rec.result = "committed" =>
              LET r == SourceOf(e.doc, rec.idx)
                  m == MeetingSummary(r)
                  d == parse_date(r.meetingInfo.date)
                  ops == write_plan(m, meeting_id_of(m, d), d)
              IN \A i \in 1..Len(ops) :
                    Keeps(ops[i].table, rec.db[ops[i].table][ops[i].id].raw_json,
                          SourceFragments(r)[i])

\* the top-level fields that the schema does not mention are kept in the
\* raw_json of the meeting row: RecAX was committed and its row holds them
C12_TopLevelFieldsKept ==
    /\ ~dry_run /\ Len(srcLog) = 1 /\ faults = 0
    /\ srcLog[1].doc = <<RecA, RecAX>>
    /\ ResultOf(srcLog[1], 2) = "committed"
    /\ LET id == meeting_id_of(MeetingSummary(RecAX), "2024-06-01")
       IN id \in DOMAIN db.meetings /\ db.meetings[id].raw_json.extra = RecAX.extra

\* the committed records of a finished source whose meeting id was in the
\* store when the record began
Collisions(e) ==
    {n \in 1..Len(e.recs) :
        e.recs[n].result = "committed" /\ e.recs[n].id \in DOMAIN e.recs[n].pre.meetings}

\* the number of updates that the run reports for a source: process_meetings
\* returns the counters of ZeroStats and _run_ingestion keeps those of
\* ZeroTotals; records_updated is the one counter of updates among them
duplicates_avoided(e) ==
    IF "duplicates_avoided" \in DOMAIN e.stats THEN e.stats.duplicates_avoided
    ELSE e.totals.records_updated - e.mark.totals.records_updated

\* the meeting row of a committed record holds the attributes of that record
LaterRecordWins(e, n) ==
    LET r == SourceOf(e.doc, e.recs[n].idx)
        m == MeetingSummary(r)
        d == parse_date(r.meetingInfo.date)
    IN /\ e.recs[n].id \in DOMAIN e.recs[n].db.meetings
       /\ e.recs[n].db.meetings[e.recs[n].id] = meeting_row(m, d)

\* C13 (as stated): a record whose meeting id is already in the store (from
\* an earlier record of the document or an earlier run) is written as an
\* update in which its attributes win, and the run counts one avoided
\* duplicate for it; re-ingesting an identical document of n valid records
\* reports n avoided duplicates.
C13_CollisionsAreCounted ==
    \A k \in 1..Len(srcLog) :
        LET e == srcLog[k] IN
        (~dry_run /\ e.outcome = "processed" /\ NoFaultIn(k))
        => /\ \A n \in Collisions(e) : LaterRecordWins(e, n)
           /\ duplicates_avoided(e) = Cardinality(Collisions(e))

\* the update itself happens: meeting m1 was in the store with two agenda
\* items, record RecC with the same id was committed, and the row now holds
\* the attributes of RecC
C13_LaterRecordWins ==
    /\ ~dry_run /\ Len(srcLog) = 1 /\ faults = 0
    /\ srcLog[1].mark.db = StoreWithOldMeeting /\ srcLog[1].doc = <<RecC>>
    /\ Collisions(srcLog[1]) = {1}
    /\ LaterRecordWins(srcLog[1], 1)
    /\ db.meetings["m1"] # StoreWithOldMeeting.meetings["m1"]
    /\ duplicates_avoided(srcLog[1]) = 0

\* the store calls on the table of ingestion runs: opening a run as running,
\* closing it with a final status
OpenRun == "insert:ingestion_runs"
CloseRun(status) == "update:ingestion_runs:" \o status
RunStatuses == {"succeeded", "partial", "failed"}

\* the records of a finished source that failed in the record gate or in the writer
FailedRecords(e) ==
    (e.totals.records_skipped - e.mark.totals.records_skipped)
    + (IF e.outcome = "processed" THEN e.stats.failed ELSE 0)

\* the status the run of a finished source is to be closed with
ExpectedStatus(e) ==
    IF e.outcome \in {"fetch_failed", "structure_failed", "workgroup_failed"} THEN "failed"
    ELSE IF FailedRecords(e) = 0 THEN "succeeded" ELSE "partial"

\* C14 (as stated): every source the coordinator has finished has exactly one
\* run record, opened as running before the fetch and closed exactly once,
\* as failed after a fetch, structure-gate or workgroup failure, else as
\* succeeded when no record failed and as partial when one did; when the
\* coordinator is done, every run opened has been closed.
C14_OneRunRecordPerSource ==
    /\ \A k \in 1..Len(srcLog) :
          LET e == srcLog[k] IN
          /\ CountOf(e.ops, OpenRun) = 1
          /\ CountOf(e.ops, CloseRun(ExpectedStatus(e))) = 1
          /\ \A st \in RunStatuses \ {ExpectedStatus(e)} : CountOf(e.ops, CloseRun(st)) = 0
    /\ pc = "done" =>
          CountOf(opLog, OpenRun)
             = CountOf([i \in 1..Len(opLog) |->
                          IF \E st \in RunStatuses : opLog[i] = CloseRun(st)
                          THEN "close" ELSE opLog[i]], "close")

\* what the coordinator keeps instead: a run over a source that failed and a
\* source that was written ended with the two sources counted in its totals
\* and no store call on a run table
C14_SourcesAreOnlyCounted ==
    /\ ~dry_run /\ pc = "done" /\ Len(srcLog) = 2
    /\ srcLog[1].outcome = "structure_failed" /\ srcLog[2].outcome = "processed"
    /\ total_stats.sources_failed = 1 /\ total_stats.sources_processed = 1
    /\ CountOf(opLog, OpenRun) = 0
    /\ \A st \in RunStatuses : CountOf(opLog, CloseRun(st)) = 0
    /\ CountOf(opLog, "upsert:meetings") > 0

(***************************************************************************)
(* The structure gate (C15).                                               *)
(***************************************************************************)
\* the first n elements of a sequence
Prefix(q, n) == SubSeq(q, 1, IF Len(q) < n THEN Len(q) ELSE n)

\* validate_json_structure_compatibility has answered
GateAnswered == caller = "test" /\ pc = "returned"

\* the condition of acceptance, on the first record
SampleWellFormed(r) ==
    /\ RequiredTop \subseteq r.present
    /\ "meetingInfo" \notin r.scalar /\ r.meetingInfo.date # Absent
    /\ "agendaItems" \notin r.scalar
    /\ \A i \in 1..Len(r.agendaItems) :
          i <= 5 => \A f \in ChildLists : f \notin r.agendaItems[i].scalar

\* the document cut down to what the gate is said to look at
GateView(d) ==
    IF d = <<>> THEN d
    ELSE <<[Strip(d[1]) EXCEPT !.agendaItems = Prefix(@, 5)]>>

\* C15: the structure gate accepts a document exactly when its root is an
\* array that is empty or whose first record has the six required fields, an
\* object meetingInfo holding date, an array agendaItems and, in its first
\* five agenda items, only arrays as action, decision and discussion lists;
\* the answer is the same for the document without its later records, its
\* agenda items after the fifth and its additional fields.
C15_GateLooksAtFirstRecordOnly ==
    GateAnswered =>
        /\ verdict = (/\ root = "array"
                      /\ (json_data = <<>> \/ SampleWellFormed(json_data[1])))
        /\ verdict = StructureGate(root, GateView(json_data))

\* the gate accepted a document whose sixth agenda item has a malformed
\* list, whose first record carries additional fields and whose second
\* record lacks required fields
C15_Witness ==
    /\ GateAnswered /\ verdict /\ Len(json_data) = 2
    /\ json_data[2] = RecBare
    /\ json_data[1].extra # NoExtra
    /\ Len(json_data[1].agendaItems) = 6
    /\ json_data[1].agendaItems[6].scalar = {"decisionItems"}

(***************************************************************************)
(* The meeting loop of process_meetings (C20).                             *)
(***************************************************************************)
\* the steps at which the store is called for one meeting
StoreSteps == {"meeting_loop", "m_begin", "m_prepare", "m_write", "m_commit"}

\* the entries of recLog that are failures
FailedEntries == {n \in 1..Len(recLog) : recLog[n].result = "failed"}

\* the workgroup phase is over and the loop over the meetings has begun
InMeetingLoop == pc \in MeetingPhase \/ (pc = "returned" /\ valid_records # <<>>)

\* C20: once the workgroup phase is over, process_meetings visits the
\* meetings in input order and returns normally: no exception of the loop
\* body leaves it.  A failure of acquire, begin, commit or an entity write at
\* meeting k is counted as one failed record, and the loop goes on to meeting
\* k + 1 with no connection held and no transaction open, so that every
\* meeting is attempted on a connection acquired for it.
C20_LoopSurvivesMeetingFailures ==
    /\ pc = "raised" =>
          /\ recLog = <<>>
          /\ exc.at \in {"pm_entry", "wg_acquire", "wg_upsert"}
    /\ \A n \in 1..Len(recLog) :
          /\ recLog[n].idx \in 1..Len(valid_records)
          /\ n = 1 => recLog[n].idx = 1
          /\ n > 1 => recLog[n].idx \in {recLog[n - 1].idx, recLog[n - 1].idx + 1}
          /\ (n > 1 /\ recLog[n - 1].at \in StoreSteps) =>
                recLog[n].idx = recLog[n - 1].idx + 1
    /\ InMeetingLoop =>
          /\ mi \in 1..(Len(valid_records) + 1)
          /\ {recLog[n].idx : n \in 1..Len(recLog)} \in {1..(mi - 1), 1..mi}
          /\ stats.failed = Cardinality(FailedEntries)
    /\ pc = "meeting_loop" => conn = "none" /\ ~tx.open
    /\ pc = "m_begin" => conn = "held" /\ opLog[Len(opLog)] = "acquire"
    /\ pc = "m_except" => ENABLED ExceptMeeting
    /\ (pc = "meeting_loop" /\ mi <= Len(valid_records)) =>
          ENABLED (AcquireForMeeting \/ DryRunMeeting)
    /\ pc = "returned" =>
          {recLog[n].idx : n \in 1..Len(recLog)} = 1..Len(valid_records)

\* the first of two meetings failed at a store step, the second was
\* committed, and process_meetings returned its statistics
C20_Witness ==
    /\ pc = "returned" /\ Len(recLog) = 2
    /\ recLog[1].result = "failed" /\ recLog[1].at \in StoreSteps
    /\ recLog[2].result = "committed"
    /\ stats.failed = 1 /\ stats.succeeded = 1

(***************************************************************************)
(* The dashboard backend without a database URL (C16).                     *)
(***************************************************************************)
\* the caller of the response was authenticated
Authenticated(r) == r.user.status = 200

\* C16: with DATABASE_URL unset, every authenticated GET of kpis, meetings,
\* runs, runs/monthly and alerts is answered 200 with the empty result of
\* its route, and no request asks for, creates or uses the connection pool.
C16_EmptyAnswersWithoutDatabaseUrl ==
    database_url = Null =>
        /\ api_pool = "none"
        /\ \A c \in Clients : reqs[c].step = "idle"
        /\ \A n \in 1..Len(resps) :
              /\ ~resps[n].trace.get_db_pool
              /\ resps[n].trace.acquire = "not tried"
              /\ resps[n].pool = "none"
              /\ (Authenticated(resps[n]) /\ resps[n].endpoint \in Listings) =>
                    /\ resps[n].status = 200
                    /\ resps[n].body = EmptyResult(resps[n].endpoint)

\* without a database URL the KPIs and the meeting listing were both served
C16_Witness ==
    /\ database_url = Null /\ Len(resps) = 2
    /\ resps[1].endpoint = "get_kpis" /\ resps[1].status = 200
    /\ resps[1].body.success_rate = 100 /\ resps[1].body.total_ingested = 0
    /\ resps[2].endpoint = "list_meetings" /\ resps[2].status = 200
    /\ resps[2].body.items = <<>> /\ resps[2].body.total_pages = 0

(***************************************************************************)
(* The dashboard backend with an unavailable database (C17).               *)
(***************************************************************************)
\* the request met a database that does not answer: the pool could not be
\* created, or no connection could be acquired
Unavailable(r) == r.trace.pool_failed \/ r.trace.acquire = "connection refused"

\* C17 (as stated): with DATABASE_URL set and the database unavailable, the
\* listing and KPI routes answer 200 with an empty result and the meeting
\* detail answers 500; 404 is answered only when the store was reached and
\* the id is absent.
C17_UnavailableDatabaseGivesEmptyListings ==
    \A n \in 1..Len(resps) :
        /\ (Unavailable(resps[n]) /\ resps[n].endpoint \in Listings) =>
              /\ resps[n].status = 200
              /\ resps[n].body = EmptyResult(resps[n].endpoint)
        /\ (Unavailable(resps[n]) /\ resps[n].endpoint = "get_meeting_detail") =>
              resps[n].status = 500
        /\ resps[n].status = 404 =>
              /\ resps[n].trace.reached
              /\ resps[n].arg \notin DOMAIN db.meetings \cup error_log

\* the pool could not be created: the KPIs were answered 500, the monthly
\* aggregates 200 with an empty list
C17_OnlyMonthlyChecksThePool ==
    /\ Len(resps) = 2
    /\ resps[1].endpoint = "get_kpis" /\ resps[1].trace.pool_failed
    /\ resps[1].status = 500
    /\ resps[2].endpoint = "get_monthly_aggregates" /\ resps[2].trace.pool_failed
    /\ resps[2].status = 200 /\ resps[2].body = <<>>

(***************************************************************************)
(* Alert acknowledgment (C18).                                             *)
(***************************************************************************)
Last(q) == q[Len(q)]

\* the acknowledgments answered 200, in order
AckedBy(id) ==
    SelectSeq(resps, LAMBDA r : r.endpoint = "acknowledge_alert" /\ r.status = 200
                                /\ r.arg = id)

\* this step answers a request
Answers == Len(resps') = Len(resps) + 1

\* the table changes only by the upsert of an administrator's acknowledgment
OnlyAdminsWrite ==
    (acks' # acks \/ acks_table' # acks_table) =>
        /\ Answers
        /\ Last(resps').endpoint = "acknowledge_alert"
        /\ Last(resps').status = 200
        /\ Last(resps').user.role = "admin"
        /\ Last(resps').arg \in error_log
        /\ acks' = Put(acks, Last(resps').arg,
                       [acknowledged_by |-> Last(resps').user.user_id])

\* what the callers that are turned away are answered
RefusalsWriteNothing ==
    (Answers /\ Last(resps').endpoint = "acknowledge_alert") =>
        LET r == Last(resps')
        IN /\ (Authenticated(r) /\ r.user.role # "admin") => r.status = 403
           /\ r.status = 403 => (Authenticated(r) /\ r.user.role # "admin")
           /\ (r.trace.reached /\ r.arg \notin error_log) => r.status = 404
           /\ r.status = 404 => (r.trace.reached /\ r.arg \notin error_log)
           /\ r.status # 200 => (acks' = acks /\ acks_table' = acks_table)

\* one row per acknowledged alert, naming the latest acknowledger
LatestAcknowledgerKept ==
    \A id \in AlertArgs :
        IF AckedBy(id) = <<>> THEN id \notin DOMAIN acks
        ELSE /\ id \in DOMAIN acks
             /\ acks[id].acknowledged_by = Last(AckedBy(id)).user.user_id

\* C18: the acknowledgment table changes only in a step that answers 200 to
\* an administrator acknowledging an alert of the error log, and then the
\* row of that alert alone is set to that administrator; an authenticated
\* caller who is no administrator is answered 403, an administrator naming
\* an unknown alert is answered 404 once the store is reached, and both
\* leave the table as it was; the table holds one row per acknowledged
\* alert, with the administrator of the latest acknowledgment.
C18_AcknowledgeIsAdminGated ==
    []LatestAcknowledgerKept /\ [][OnlyAdminsWrite /\ RefusalsWriteNothing]_vars

\* two administrators acknowledged the same alert: one row, the later name
C18_Witness ==
    /\ Len(resps) = 2
    /\ resps[1].endpoint = "acknowledge_alert" /\ resps[1].status = 200
    /\ resps[2].endpoint = "acknowledge_alert" /\ resps[2].status = 200
    /\ resps[1].arg = "e1" /\ resps[2].arg = "e1"
    /\ resps[1].user.user_id = "admin1" /\ resps[2].user.user_id = "admin2"
    /\ DOMAIN acks = {"e1"} /\ acks["e1"].acknowledged_by = "admin2"

(***************************************************************************)
(* The export limit (C19).                                                 *)
(***************************************************************************)
\* C19 (as stated): an export answered 200 never holds more than 10,000
\* rows, also when meetings are committed between its count query and its
\* row query.
C19_ExportNeverExceedsLimit ==
    \A n \in 1..Len(resps) :
        (resps[n].endpoint = "export_meetings" /\ resps[n].status = 200) =>
            resps[n].body.rows <= ExportLimit

\* an export counted exactly 10,000 rows, a meeting was committed before
\* its row query, and the 200 response holds 10,001 rows
C19_RowsArriveAfterTheCount ==
    \E n \in 1..Len(resps) :
        /\ resps[n].endpoint = "export_meetings" /\ resps[n].status = 200
        /\ resps[n].total = ExportLimit
        /\ resps[n].body.rows = ExportLimit + 1

(***************************************************************************)
(* The workgroup phase of a source (C21).                                  *)
(***************************************************************************)
\* the failing store call of source k was an upsert of a workgroup
WorkgroupUpsertFailed(k) ==
    /\ srcLog[k].outcome = "workgroup_failed"
    /\ ~NoFaultIn(k)
    /\ srcLog[k].ops # <<>> /\ "upsert:workgroups" \in {srcLog[k].ops[i] : i \in 1..Len(srcLog[k].ops)}

\* C21 (as stated): when the upsert of one workgroup of a source fails, no
\* workgroup row is created or changed by the source, the source is counted
\* as failed, and the coordinator goes on to the next source.
C21_WorkgroupsAllOrNothing ==
    \A k \in 1..Len(srcLog) :
        WorkgroupUpsertFailed(k) =>
            /\ srcLog[k].db.workgroups = srcLog[k].mark.db.workgroups
            /\ srcLog[k].totals.sources_failed = srcLog[k].mark.totals.sources_failed + 1

\* the second of two workgroup upserts failed: the row of the first stays,
\* no transaction was ever begun, the source counts as failed and the next
\* source was fetched
C21_FirstWorkgroupStays ==
    /\ Len(srcLog) = 2 /\ WorkgroupUpsertFailed(1)
    /\ srcLog[1].mark.db.workgroups = EmptyFn
    /\ Cardinality(DOMAIN srcLog[1].db.workgroups) = 1
    /\ "begin" \notin {srcLog[1].ops[i] : i \in 1..Len(srcLog[1].ops)}
    /\ \A t \in MeetingTables : srcLog[1].db[t] = srcLog[1].mark.db[t]
    /\ srcLog[1].totals.sources_failed = 1
    /\ Len(fetchLog) = 2

(***************************************************************************)
(* Primary keys (C22).                                                     *)
(***************************************************************************)
\* the source records of a document that the record gate accepts, in order
ValidSources(doc) == SelectSeq(doc, record_is_valid)

\* the source id as a key, or the derived key when there is none that parses
KeyOr(id, derived) ==
    IF id \notin {Null, Absent, ""} /\ id \in UUIDStrings THEN uuid_UUID(id) ELSE derived

StatedMeetingKey(r) ==
    KeyOr(IF Has(r, "id") THEN r.id ELSE Null,
          derived_meeting_id(MeetingSummary(r), parse_date(r.meetingInfo.date)))

StatedAgendaKey(M, item, i) ==
    KeyOr(item.id, uuid5(AGENDA_ITEM_NAMESPACE, M \o ":agenda:" \o ToString(i - 1)))

StatedChildKey(namespace, kind, A, child, position) ==
    KeyOr(child.id, uuid5(namespace, A \o ":" \o kind \o ":" \o ToString(position)))

\* an action item that validation keeps
Kept(c) == c.form = "object" /\ c.text # Absent

\* the number of kept action items before the j-th
KeptBefore(children, j) == Cardinality({i \in 1..(j - 1) : Kept(children[i])})

\* the keys of the rows the writer issues for a table, with their parents
Issued(ops, table, parent) ==
    {<<ops[i].id, ops[i].row[parent]>> : i \in {n \in 1..Len(ops) : ops[n].table = table}}

\* the plan of the writer for the source record r
PlanOf(r) ==
    write_plan(MeetingSummary(r), meeting_id_of(MeetingSummary(r),
                                                parse_date(r.meetingInfo.date)),
               parse_date(r.meetingInfo.date))

\* the keys of agenda items, decisions and discussion points of r
PlainKeysAsStated(r) ==
    LET M == StatedMeetingKey(r)
        ops == PlanOf(r)
        A(i) == StatedAgendaKey(M, r.agendaItems[i], i)
        items == 1..Len(r.agendaItems)
    IN /\ ops[1].id = M
       /\ Issued(ops, "agenda_items", "meeting_id") = {<<A(i), M>> : i \in items}
       /\ Issued(ops, "decision_items", "agenda_item_id") =
             UNION {{<<StatedChildKey(DECISION_ITEM_NAMESPACE, "decision", A(i),
                                      r.agendaItems[i].decisionItems[j], j - 1), A(i)>> :
                         j \in 1..Len(r.agendaItems[i].decisionItems)} : i \in items}
       /\ Issued(ops, "discussion_points", "agenda_item_id") =
             UNION {{<<StatedChildKey(DISCUSSION_POINT_NAMESPACE, "discussion", A(i),
                                      r.agendaItems[i].discussionPoints[j], j - 1), A(i)>> :
                         j \in 1..Len(r.agendaItems[i].discussionPoints)} : i \in items}

\* the keys of the action items of r, an element counted at Position(list, j)
ActionKeys(r, Position(_, _)) ==
    LET M == StatedMeetingKey(r)
        A(i) == StatedAgendaKey(M, r.agendaItems[i], i)
    IN UNION {{<<StatedChildKey(ACTION_ITEM_NAMESPACE, "action", A(i),
                                r.agendaItems[i].actionItems[j],
                                Position(r.agendaItems[i].actionItems, j)), A(i)>> :
                    j \in {n \in 1..Len(r.agendaItems[i].actionItems) :
                              Kept(r.agendaItems[i].actionItems[n])}} :
              i \in 1..Len(r.agendaItems)}

SourcePosition(children, j) == j - 1

\* the rows of the plan are in the tables after the commit
PlanIsInStore(ops, tables) ==
    \A i \in 1..Len(ops) :
        /\ ops[i].id \in DOMAIN tables[ops[i].table]
        /\ tables[ops[i].table][ops[i].id] = ops[i].row

\* the transaction of a meeting has just committed
JustCommitted ==
    /\ caller = "cli" /\ pc = "m_release"
    /\ recLog # <<>> /\ Last(recLog).result = "committed"

\* the source record of the meeting that was just committed
CommittedRecord == ValidSources(json_data)[Last(recLog).idx]

\* the committed records of a finished source
Committed(k) ==
    {n \in 1..Len(srcLog[k].recs) : srcLog[k].recs[n].result = "committed"}

Issues(op) == Len(opLog') > Len(opLog) /\ opLog'[Len(opLog) + 1] = op

\* a transaction lives on a held connection; outside process_meetings nothing is held
HeldOnlyInsideTheService ==
    /\ tx.open => conn = "held"
    /\ conn = "held" => pc \in {"wg_upsert", "m_begin", "m_prepare", "m_write", "m_commit", "m_release"}
    /\ tx.open => pc \in {"m_prepare", "m_write", "m_commit"}

\* acquire() is called with no connection held, BEGIN with no transaction open
AcquiresAndBeginsDoNotNest ==
    /\ Issues("acquire") => conn = "none" /\ ~tx.open
    /\ Issues("begin") => conn = "held" /\ ~tx.open

\* downloader.download is called with nothing held and nothing open
FetchesOutsideTransactions ==
    fetchLog' # fetchLog => conn = "none" /\ ~tx.open

\* C23: at every point of an ingestion run at most one transaction is open and
\* at most one pooled connection is held; a connection is released before the
\* next one is acquired, and no source is fetched while a transaction is open.
C23_OneConnectionOneTransaction ==
    /\ []HeldOnlyInsideTheService
    /\ [][AcquiresAndBeginsDoNotNest /\ FetchesOutsideTransactions]_vars

\* a second source is fetched after the first one committed a meeting and failed
\* another, each on a connection of its own
C23_Witness ==
    /\ caller = "cli" /\ Len(fetchLog) = 2 /\ Len(srcLog) = 1
    /\ CountOf(srcLog[1].ops, "acquire") >= 3
    /\ CountOf(srcLog[1].ops, "commit") >= 1
    /\ CountOf(srcLog[1].ops, "rollback") >= 1

(***************************************************************************)
(* C24: cancellation of the coordinator inside a meeting's transaction.    *)
(***************************************************************************)
\* the main task is cancelled at an await of _process_single_meeting (a SELECT
\* or an upsert on the open transaction): CancelledError is no Exception, so it
\* leaves `async with conn.transaction()` (ROLLBACK) and `async with acquire()`
\* (release), passes every `except Exception` of process_meetings and of
\* _run_ingestion, and ends asyncio.run; ingest() logs "Ingestion interrupted"
\* and aborts
Cancel ==
    /\ caller = "cli" /\ pc \in {"m_prepare", "m_write"} /\ tx.open
    /\ opLog' = UnwindLog(opLog)
    /\ conn' = connection_after_exit /\ tx' = NoTx
    /\ exc' = Raised("CancelledError")
    /\ pc' = "cancelled"
    /\ UNCHANGED <<inputs, probe, readapi, src, locals, total_stats, pools, pm, writer, db,
                   faults, ghost, errLog, recLog, pre>>

\* an ingestion run that may be interrupted
NextCancel ==
    \/ Next
    \/ Cancel

SpecCancel == Init /\ [][NextCancel]_vars

\* the run was cancelled inside the transaction of a meeting
Cancelled == caller = "cli" /\ pc = "cancelled"

\* the transaction of the in-flight meeting is gone and the tables are as they
\* were when the meeting began
InFlightRolledBack == ~tx.open /\ conn = "none" /\ db = pre

\* the tables are as the last commit of the source left them
CommittedRemain ==
    \A i \in 1..Len(recLog) :
        recLog[i].result = "committed"
            => /\ recLog[i].id \in DOMAIN db.meetings
               /\ (\A j \in (i + 1)..Len(recLog) : recLog[j].result # "committed")
                      => db = recLog[i].db

\* C24 (as stated): when the coordinator is cancelled while a meeting
\* transaction is open, the transaction is rolled back and no row of the
\* in-flight meeting persists, the records committed before remain, and the
\* run of the current source is closed as partial, not left open.
C24_CancelledRunClosedAsPartial ==
    Cancelled =>
        /\ InFlightRolledBack
        /\ CommittedRemain
        /\ CountOf(SourceOps, CloseRun("partial")) = 1

\* what happens instead: the second meeting of a source is cancelled after rows
\* of it were written in its transaction; the rollback leaves the first
\* meeting committed and no row of the second, and the run ends with no run
\* record closed, the source not counted and the pool not closed
C24_CancelledRunIsOnlyInterrupted ==
    /\ Cancelled /\ exc.at = "m_write" /\ wpos > 2
    /\ Len(recLog) = 1 /\ recLog[1].result = "committed"
    /\ InFlightRolledBack /\ CommittedRemain
    /\ cur_id \notin DOMAIN db.meetings
    /\ SubSeq(opLog, Len(opLog) - 1, Len(opLog)) = <<"rollback", "release">>
    /\ \A st \in RunStatuses : CountOf(opLog, CloseRun(st)) = 0
    /\ CountOf(opLog, "close_pool") = 0
    /\ total_stats = opMark.totals /\ Len(srcLog) < Len(fetchLog)

(***************************************************************************)
(* C25: the pool of the read API as a singleton.                           *)
(***************************************************************************)
\* the pools that requests, answered or in progress, were handed by get_db_pool
PoolsObtained ==
    ({resps[n].trace.pool : n \in 1..Len(resps)}
        \cup {reqs[c].trace.pool : c \in {d \in Clients : reqs[d].step # "idle"}}) \ {0}

\* C25 (as stated): with DATABASE_URL set, whatever the interleaving of the
\* requests, at most one pool is ever created and every request that obtains
\* a pool obtains that one, also when several requests find the pool
\* uninitialised at the same time.
C25_PoolIsSingleton ==
    (caller = "dashboard" /\ database_url # Null)
        => /\ pools_created <= 1
           /\ Cardinality(PoolsObtained) <= 1

\* two requests found `_pool is None` before either create_pool returned: each
\* created a pool of its own and was answered from it, and _pool holds the
\* second, the first being referenced by nothing
C25_EachRequestCreatesItsPool ==
    /\ caller = "dashboard" /\ database_url # Null
    /\ Len(resps) = 2 /\ pools_created = 2 /\ pool_id = 2
    /\ \A n \in 1..2 : resps[n].trace.created /\ resps[n].status = 200
    /\ {resps[1].trace.pool, resps[2].trace.pool} = {1, 2}

(***************************************************************************)
(* C26: the counters process_meetings returns.                             *)
(***************************************************************************)
\* process_meetings has returned its stats to a direct caller
Returned == caller = "api" /\ pc = "returned"

\* the meetings of the call whose transaction was committed
CommittedMeetings == {i \in 1..Len(recLog) : recLog[i].result = "committed"}

\* C26 (as stated): when process_meetings returns, succeeded + failed is the
\* number of input meetings, processed equals succeeded, and succeeded is the
\* number of meetings whose transaction committed, whatever steps failed,
\* the commit and the release of the connection included.
C26_StatsAddUp ==
    Returned =>
        /\ stats.succeeded + stats.failed = Len(valid_records)
        /\ stats.processed = stats.succeeded
        /\ ~dry_run => stats.succeeded = Cardinality(CommittedMeetings)

\* the commit of a meeting failed after `stats["succeeded"] += 1` had run inside
\* the transaction: the meeting is counted as succeeded and as failed, nothing
\* of it was committed, and processed stays behind
C26_CommitFailureCountsTwice ==
    /\ Returned /\ ~dry_run
    /\ \E i \in 1..Len(recLog) : recLog[i].result = "failed" /\ recLog[i].at = "m_commit"
    /\ stats.succeeded + stats.failed = Len(valid_records) + 1
    /\ stats.succeeded = Cardinality(CommittedMeetings) + 1
    /\ stats.processed = stats.succeeded - 1

(***************************************************************************)
(* C27: the rows under a meeting after a write of it.                      *)
(***************************************************************************)
\* the keys of the rows the writer issues for a table
KeysIssued(ops, table) == {ops[i].id : i \in {n \in 1..Len(ops) : ops[n].table = table}}

\* the rows of a child table under the agenda items of a meeting
ChildRowsOf(tables, table, meeting_id) ==
    {c \in DOMAIN tables[table] :
        tables[table][c].agenda_item_id \in AgendaRowsOf(tables, meeting_id)}

ChildTables == {"action_items", "decision_items", "discussion_points"}

\* C27 (as stated): after a successful write of a record, the agenda-item rows
\* of its meeting and the action, decision and discussion rows under them are
\* exactly the items of the record; no row of an earlier version of the meeting
\* stays attached to it.
C27_RowsAreThePayload ==
    JustCommitted =>
        LET ops == PlanOf(CommittedRecord)
            M == Last(recLog).id
        IN /\ AgendaRowsOf(db, M) = KeysIssued(ops, "agenda_items")
           /\ \A t \in ChildTables : ChildRowsOf(db, t, M) = KeysIssued(ops, t)

\* meeting m1 was stored with two agenda items and is written again with one:
\* the two rows of the earlier version are still attached to it
C27_RowsOfEarlierVersionRemain ==
    /\ JustCommitted /\ CommittedRecord = RecC /\ opMark.db = StoreWithOldMeeting
    /\ Last(recLog).id = "m1"
    /\ Len(RecC.agendaItems) = 1 /\ Len(RecCOld.agendaItems) = 2
    /\ Cardinality(AgendaRowsOf(db, "m1")) = 3
    /\ AgendaRowsOf(pre, "m1") \subseteq AgendaRowsOf(db, "m1")
    /\ AgendaRowsOf(pre, "m1") \cap KeysIssued(plan, "agenda_items") = {}

(***************************************************************************)
(* C28: a write leaves the rows of other meetings alone.                   *)
(***************************************************************************)
\* the agenda-item rows of the tables that belong to a meeting other than M
AgendaRowsOfOthers(tables, M) ==
    {a \in DOMAIN tables.agenda_items : tables.agenda_items[a].meeting_id # M}

\* the rows of a child table under agenda items of a meeting other than M
ChildRowsOfOthers(tables, table, M) ==
    {c \in DOMAIN tables[table] :
        tables[table][c].agenda_item_id \in AgendaRowsOfOthers(tables, M)}

\* C28 (as stated): the write of a record changes neither the parent reference
\* nor the attributes of a meeting, agenda-item or child row that belonged to
\* a different meeting before the write, also when the record carries
\* source-supplied agenda-item or child ids.
C28_OtherMeetingsUntouched ==
    JustCommitted =>
        LET M == Last(recLog).id IN
        /\ \A id \in DOMAIN pre.meetings \ {M} : db.meetings[id] = pre.meetings[id]
        /\ \A a \in AgendaRowsOfOthers(pre, M) : db.agenda_items[a] = pre.agenda_items[a]
        /\ \A t \in ChildTables :
              \A c \in ChildRowsOfOthers(pre, t, M) : db[t][c] = pre[t][c]

\* RecB and then RecC, a different meeting, carry the agenda-item id a1: the
\* write of RecC moves the row a1 of RecB's meeting under meeting m1 and
\* overwrites its raw_json, so RecB's meeting is left with no agenda item
C28_AgendaRowMovesToTheLaterMeeting ==
    /\ JustCommitted /\ json_data = <<RecB, RecC>> /\ CommittedRecord = RecC
    /\ Last(recLog).id = "m1" /\ Len(recLog) = 2 /\ recLog[1].result = "committed"
    /\ pre.agenda_items["a1"].meeting_id = recLog[1].id
    /\ recLog[1].id # "m1"
    /\ db.agenda_items["a1"].meeting_id = "m1"
    /\ db.agenda_items["a1"].raw_json # pre.agenda_items["a1"].raw_json
    /\ AgendaRowsOf(pre, recLog[1].id) = {"a1"} /\ AgendaRowsOf(db, recLog[1].id) = {}

(***************************************************************************)
(* C29: dry-run against the real write.                                    *)
(***************************************************************************)
\* what _process_single_meeting needs of a meeting when no store call fails
RealWriteAccepts(m) ==
    /\ parse_date(m.meetingInfo.date) # Null
    /\ ~detect_circular_reference(raw_json_of(m), MaxDepth)

\* what the dry-run branch needs of a meeting
DryRunAccepts(m) == ~validate_meeting_structure_raises(m)

\* the meetings of the call that were counted as succeeded
CountedSucceeded ==
    {recLog[i].idx : i \in {n \in 1..Len(recLog) : recLog[n].result \in {"committed", "dry_run"}}}

\* C29 (as stated): over a store that never fails, the meetings a dry run
\* counts as succeeded are those a real run counts as succeeded: a dry run
\* succeeds on exactly the meetings the write accepts, and a real run on
\* exactly the meetings the dry-run check accepts.
C29_DryRunPredictsTheWrite ==
    (Returned /\ faults = 0) =>
        /\ stats.succeeded = Cardinality(CountedSucceeded)
        /\ CountedSucceeded =
              {i \in 1..Len(valid_records) :
                  IF dry_run THEN RealWriteAccepts(valid_records[i])
                  ELSE DryRunAccepts(valid_records[i])}

\* a dry run counted a meeting as succeeded whose date no format parses and
\* which the write rejects
C29_DryRunAcceptsAnUnparsableDate ==
    /\ Returned /\ dry_run /\ Len(valid_records) = 1
    /\ valid_records[1].meetingInfo.date \notin {Null, Absent, ""}
    /\ parse_date(valid_records[1].meetingInfo.date) = Null
    /\ ~RealWriteAccepts(valid_records[1])
    /\ stats.succeeded = 1 /\ stats.failed = 0

(***************************************************************************)
(* list_meetings: the WHERE clause, the count query and the page query.    *)
(***************************************************************************)
PageSizes == {1, PageSize, MaxPageSize}
Pages == 1..MaxPage

\* the values a filter of the query string may take; None and "" are falsy
TextFilters == {Null, "", "gov"}
FromDates == {Null, "2024-06-01"}
ToDates == {Null, "2024-06-30"}

\* f"%{text}%"
Pattern(text) == "%" \o text \o "%"

\* a condition of the WHERE clause: its text and the numbers of the
\* placeholders its text contains, in order
Condition(text, uses) == [text |-> text, uses |-> uses]

\* where_conditions, params and param_idx after one more condition
Extend(b, condition, values) ==
    [conds |-> Append(b.conds, condition),
     params |-> b.params \o values,
     param_idx |-> b.param_idx + Len(values)]

\* if workgroup: ms.workgroup ILIKE ${param_idx}
with_workgroup(b, workgroup) ==
    IF Falsy(workgroup) THEN b
    ELSE Extend(b, Condition("ms.workgroup ILIKE", <<b.param_idx>>), <<Pattern(workgroup)>>)

\* if date_from: ms.meeting_date >= ${param_idx}
with_date_from(b, date_from) ==
    IF date_from = Null THEN b
    ELSE Extend(b, Condition("ms.meeting_date >=", <<b.param_idx>>), <<date_from>>)

\* if date_to: ms.meeting_date <= ${param_idx}
with_date_to(b, date_to) ==
    IF date_to = Null THEN b
    ELSE Extend(b, Condition("ms.meeting_date <=", <<b.param_idx>>), <<date_to>>)

\* if search: (ms.workgroup ILIKE ${param_idx} OR ms.title ILIKE ${param_idx}),
\* the pattern appended to params twice, param_idx += 2
with_search(b, search) ==
    IF Falsy(search) THEN b
    ELSE Extend(b, Condition("ms.workgroup ILIKE OR ms.title ILIKE", <<b.param_idx, b.param_idx>>),
                <<Pattern(search), Pattern(search)>>)

RECURSIVE Placeholders(_)
\* the placeholders of " AND ".join(where_conditions), in text order
Placeholders(conds) ==
    IF conds = <<>> THEN <<>> ELSE conds[1].uses \o Placeholders(Tail(conds))

\* a statement sent to the store: the placeholders of its text and the
\* arguments passed with it
Statement(uses, args) == [uses |-> uses, args |-> args]
NoStatement == Statement(<<>>, <<>>)

\* list_meetings has its pool and connection and starts on the WHERE clause
InitListing ==
    /\ \E page \in Pages, page_size \in PageSizes, workgroup \in TextFilters,
          date_from \in FromDates, date_to \in ToDates, search \in TextFilters :
          listing = [step |-> "where", page |-> page, page_size |-> page_size,
                     workgroup |-> workgroup, date_from |-> date_from,
                     date_to |-> date_to, search |-> search,
                     conds |-> <<>>, params |-> <<>>, param_idx |-> 1,
                     count_query |-> NoStatement, query |-> NoStatement,
                     limit |-> 0, offset |-> 0]
    /\ root = "array" /\ verdict = FALSE
    /\ database_url = "postgresql://store" /\ dev_auth_bypass = FALSE
    /\ api_pool = "open" /\ pools_created = 1 /\ pool_id = 1
    /\ reqs = [c \in Clients |-> NoRequest] /\ resps = <<>> /\ served = 0
    /\ acks_table = FALSE /\ acks = EmptyFn /\ error_log = {} /\ archived = 0
    /\ urls = <<Urls[1]>> /\ dry_run = FALSE /\ skip_validation = FALSE
    /\ caller = "list_meetings" /\ pc = "done"
    /\ pool = "none" /\ service = FALSE
    /\ db = EmptyDB /\ pre = db
    /\ Idle

\* where_conditions, params, param_idx (lines 94-127)
BuildWhere ==
    /\ caller = "list_meetings" /\ listing.step = "where"
    /\ LET b == with_search(
                    with_date_to(
                       with_date_from(
                          with_workgroup([conds |-> <<>>, params |-> <<>>, param_idx |-> 1],
                                         listing.workgroup),
                          listing.date_from),
                       listing.date_to),
                    listing.search)
       IN listing' = [listing EXCEPT !.step = "count", !.conds = b.conds,
                                     !.params = b.params, !.param_idx = b.param_idx]
    /\ UNCHANGED <<pc, inputs, coord, svc, exc, store, faults, hist, root, verdict, readapi>>

\* count_row = await conn.fetchrow(count_query, *params)
CountQuery ==
    /\ caller = "list_meetings" /\ listing.step = "count"
    /\ listing' = [listing EXCEPT !.step = "page",
                                  !.count_query = Statement(Placeholders(listing.conds),
                                                            listing.params)]
    /\ UNCHANGED <<pc, inputs, coord, svc, exc, store, faults, hist, root, verdict, readapi>>

\* offset = (page - 1) * page_size; LIMIT ${param_idx} OFFSET ${param_idx + 1};
\* params.extend([page_size, offset]); rows = await conn.fetch(query, *params)
PageQuery ==
    /\ caller = "list_meetings" /\ listing.step = "page"
    /\ LET offset == (listing.page - 1) * listing.page_size
           params == listing.params \o <<listing.page_size, offset>>
       IN listing' = [listing EXCEPT
                        !.step = "done",
                        !.params = params,
                        !.limit = listing.param_idx,
                        !.offset = listing.param_idx + 1,
                        !.query = Statement(Placeholders(listing.conds)
                                               \o <<listing.param_idx, listing.param_idx + 1>>,
                                            params)]
    /\ UNCHANGED <<pc, inputs, coord, svc, exc, store, faults, hist, root, verdict, readapi>>

NextListing ==
    \/ BuildWhere
    \/ CountQuery
    \/ PageQuery

SpecListing == InitListing /\ [][NextListing]_vars

(***************************************************************************)
(* C30: placeholders and bound parameters of list_meetings.                *)
(***************************************************************************)
\* every argument of the statement is referenced by a placeholder and every
\* placeholder has an argument
PlaceholdersMatchArguments(q) == Range(q.uses) = 1..Len(q.args)

\* both statements of a list_meetings call have been sent
BothQueriesSent == caller = "list_meetings" /\ listing.step = "done"

LimitAndOffsetBound ==
    /\ listing.limit \in 1..Len(listing.query.args)
    /\ listing.offset \in 1..Len(listing.query.args)
    /\ listing.query.args[listing.limit] = listing.page_size
    /\ listing.query.args[listing.offset] = (listing.page - 1) * listing.page_size

\* C30 (as stated): for every combination of the filters workgroup, date_from,
\* date_to and search, the count query and the page query use the placeholders
\* $1..$n for exactly the n parameters bound to them, and LIMIT and OFFSET
\* are bound to page_size and (page - 1) * page_size.
C30_PlaceholdersMatchParameters ==
    BothQueriesSent =>
        /\ PlaceholdersMatchArguments(listing.count_query)
        /\ PlaceholdersMatchArguments(listing.query)
        /\ LimitAndOffsetBound

\* with the search filter alone the count query has the one placeholder $1 and
\* two arguments, and the page query has $1, $3 and $4 and four arguments: no
\* placeholder references the second copy of the pattern
C30_SearchBindsAnUnreferencedParameter ==
    /\ BothQueriesSent /\ listing.search = "gov"
    /\ Falsy(listing.workgroup) /\ listing.date_from = Null /\ listing.date_to = Null
    /\ listing.page = 2 /\ listing.page_size = PageSize
    /\ listing.count_query = Statement(<<1, 1>>, <<"%gov%", "%gov%">>)
    /\ listing.query = Statement(<<1, 1, 3, 4>>, <<"%gov%", "%gov%", PageSize, PageSize>>)
    /\ LimitAndOffsetBound
====
